---------------------------- MODULE Spec2Model ----------------------------
(***************************************************************************)
(* Model of the course platform scraper: the authenticated, paginated      *)
(* extraction of the user roster (UserScraper), the retrying page fetch    *)
(* shared by UserScraper and FinancialScraper, and the normalisation of    *)
(* raw user records.                                                       *)
(*                                                                         *)
(* Python text is a tuple of one-character strings, so that strip, lower,  *)
(* title and substring tests are computed.  The Python values None, True   *)
(* and False are one-element tuples holding a token that is no character.  *)
(* A dict is a function from its keys to such values.                      *)
(***************************************************************************)
EXTENDS Integers, Sequences, FiniteSets, TLC

(* ------------------------------ bounds --------------------------------- *)

\* largest value of settings.MAX_RETRIES explored (main.py --retries)
MaxRetriesBound == 2
\* pages a run may fetch before the model stops following it
MaxPages == 2
\* user items on one page
MaxItems == 2
\* records handed to _process_user_data when it is called on its own
MaxLen == 2

(* ----------------------------- settings -------------------------------- *)

REQUEST_DELAY == 3
RETRY_STATUS_FORCELIST == {429, 500, 502, 503, 504}

\* RETRY_BACKOFF_FACTOR = 0.5, as a fraction
RETRY_BACKOFF_FACTOR == [num |-> 1, den |-> 2]

(* --------------------------- Python values ----------------------------- *)

PyNone == <<"#None">>
PyTrue == <<"#True">>
PyFalse == <<"#False">>
\* datetime.now().isoformat()
Now == <<"#now">>
\* datetime.now().isoformat() in a later call
Later == <<"#later">>

IsStr(v) == v \notin {PyNone, PyTrue, PyFalse, Now, Later}

\* truthiness of a Python value: empty text, None and False are falsy
Truthy(v) == v \notin {<<>>, PyNone, PyFalse}

Letters ==
    << <<"a","A">>, <<"b","B">>, <<"c","C">>, <<"d","D">>, <<"e","E">>,
       <<"i","I">>, <<"n","N">>, <<"o","O">>, <<"p","P">>, <<"s","S">>,
       <<"g","G">>, <<"u","U">>, <<"y","Y">>, <<"t","T">>, <<"r","R">>,
       <<"f","F">> >>

IsLowerCh(c) == \E i \in 1..Len(Letters) : Letters[i][1] = c
IsUpperCh(c) == \E i \in 1..Len(Letters) : Letters[i][2] = c
IsCased(c) == IsLowerCh(c) \/ IsUpperCh(c)

LowerCh(c) ==
    IF IsUpperCh(c)
    THEN Letters[CHOOSE i \in 1..Len(Letters) : Letters[i][2] = c][1]
    ELSE c

UpperCh(c) ==
    IF IsLowerCh(c)
    THEN Letters[CHOOSE i \in 1..Len(Letters) : Letters[i][1] = c][2]
    ELSE c

IsSpace(c) == c = " "

RECURSIVE LStrip(_)
LStrip(s) == IF s # <<>> /\ IsSpace(Head(s)) THEN LStrip(Tail(s)) ELSE s

RECURSIVE RStrip(_)
RStrip(s) ==
    IF s # <<>> /\ IsSpace(s[Len(s)]) THEN RStrip(SubSeq(s, 1, Len(s) - 1)) ELSE s

\* str.strip()
StrStrip(s) == RStrip(LStrip(s))

\* str.lower()
StrLower(s) == [i \in 1..Len(s) |-> LowerCh(s[i])]

\* str.title(): a cased character is upper-cased after an uncased one (or at
\* the start) and lower-cased after a cased one
StrTitle(s) ==
    [i \in 1..Len(s) |->
        IF IsCased(s[i])
        THEN IF i > 1 /\ IsCased(s[i - 1]) THEN LowerCh(s[i]) ELSE UpperCh(s[i])
        ELSE s[i]]

\* c in s, for a one-character c
HasChar(s, c) == \E i \in 1..Len(s) : s[i] = c

\* p in s, for text p
IsSubstr(p, s) ==
    \E i \in 0..(Len(s) - Len(p)) : \A j \in 1..Len(p) : s[i + j] = p[j]

\* d[k] = v on a dict
Put(d, k, v) == [x \in (DOMAIN d) \cup {k} |-> IF x = k THEN v ELSE d[x]]

DigitChars == <<"0", "1", "2", "3", "4", "5", "6", "7", "8", "9">>
IsDigit(c) == \E i \in 1..10 : DigitChars[i] = c
DigitVal(c) == (CHOOSE i \in 1..10 : DigitChars[i] = c) - 1

\* the value of a run of digits
RECURSIVE DigitsVal(_)
DigitsVal(s) ==
    IF s = <<>> THEN 0 ELSE 10 * DigitsVal(SubSeq(s, 1, Len(s) - 1)) + DigitVal(s[Len(s)])

AllDigits(s) == s # <<>> /\ \A i \in 1..Len(s) : IsDigit(s[i])

\* int(text): surrounding blanks, an optional sign, digits; ok is FALSE for
\* ValueError
IntOfText(text) ==
    LET s == StrStrip(text)
        signed == s # <<>> /\ s[1] \in {"-", "+"}
        digits == IF signed THEN Tail(s) ELSE s
    IN  IF AllDigits(digits)
        THEN [ok |-> TRUE,
              v |-> IF signed /\ s[1] = "-" THEN 0 - DigitsVal(digits) ELSE DigitsVal(digits)]
        ELSE [ok |-> FALSE, v |-> 0]


(* ------------------------ the platform's answers ----------------------- *)

\* What session.get followed by raise_for_status can end in: a 2xx response,
\* an HTTPError for a 4xx/5xx status, or a transport error.  Every one of the
\* exceptions (and InvalidURL, for a malformed URL) is a
\* requests.RequestException.
Failures ==
    { [exc |-> "HTTPError", status |-> 404],
      [exc |-> "HTTPError", status |-> 503],
      [exc |-> "ConnectionError", status |-> 0] }

NoOutcome == [exc |-> "unset", status |-> 0]

Succeeded(o) == o.exc = "none"

\* except requests.RequestException
IsRequestException(o) ==
    o.exc \in {"HTTPError", "ConnectionError", "Timeout", "InvalidURL"}

\* One user item of a page: the text of its name, e-mail, payment-status and
\* join-date elements, each possibly absent.
Absent == <<"#absent">>

PageElements ==
    { [name |-> <<" ", "a", "b">>, email |-> << "a", "@", "b", ".", "c" >>,
       payment |-> <<"P", "a", "i", "d">>, join_date |-> Absent],
      [name |-> Absent, email |-> Absent,
       payment |-> <<"P", "e", "n", "d", "i", "n", "g">>, join_date |-> Absent] }

\* sequences over S of length at most n
SeqUpTo(S, n) == UNION { [1..k -> S] : k \in 0..n }

\* the item lists of the pages the platform serves: up to MaxItems items, at
\* most one of them without name and e-mail
PageItemLists ==
    { it \in SeqUpTo(PageElements, MaxItems) :
        Cardinality({ i \in 1..Len(it) : it[i].name = Absent }) <= 1 }

\* text of the .pagination-info element: absent, text without "of", text
\* with "of" whose numbers do not parse, or "<current> of <total>"
PageInfos ==
    { [kind |-> "absent", current |-> 0, total |-> 0],
      [kind |-> "no_of", current |-> 0, total |-> 0],
      [kind |-> "not_int", current |-> 0, total |-> 0],
      [kind |-> "of", current |-> 1, total |-> 2],
      [kind |-> "of", current |-> 2, total |-> 2] }

\* the pagination control of a page: absent, a link the selectors match, or a
\* link inside li.next.disabled
NextControls == {"absent", "link", "li_disabled"}

\* the pagination markup of the pages the platform serves
PageSignals ==
    { s \in [next : NextControls, info : PageInfos] :
        \/ s.next \in {"absent", "link"} /\ s.info.kind = "absent"
        \/ s.next = "absent" /\ s.info.kind = "of" /\ s.info.current < s.info.total
        \/ s.next = "link" /\ s.info.kind = "of" /\ s.info.current = s.info.total
        \/ s.next = "li_disabled" /\ s.info.kind \in {"not_int", "no_of"} }

Pages ==
    { [items |-> it, next |-> s.next, info |-> s.info] :
        it \in PageItemLists, s \in PageSignals }

NoContent == [items |-> <<>>, next |-> "absent", info |-> [kind |-> "unset", current |-> 0, total |-> 0]]

\* a 2xx response whose body is the page
Response(page) == [exc |-> "none", status |-> 200, body |-> page]

\* a failed attempt
Failure(o) == [exc |-> o.exc, status |-> o.status, body |-> NoContent]

\* a faulty variant of ResponseText: the body is lost on the way out
ResponseText_Empty(resp) == NoContent

\* response.text
ResponseText(resp) == resp.body

(* ----------------------------- page parsing ---------------------------- *)

\* element.get_text(strip=True)
GetText(t) == StrStrip(t)

Paid == <<"p", "a", "i", "d">>
Success == <<"s", "u", "c", "c", "e", "s", "s">>

\* the dict _parse_user_data builds for item i of page p
ParseElement(el, p, i) ==
    LET u0 == [id |-> <<p, i>>, scrape_date |-> Now]
        u1 == IF el.name # Absent THEN Put(u0, "name", GetText(el.name)) ELSE u0
        u2 == IF el.email # Absent THEN Put(u1, "email", GetText(el.email)) ELSE u1
        u3 == IF el.payment # Absent
              THEN LET payment_text == StrLower(GetText(el.payment))
                   IN  Put(u2, "paid",
                           IF IsSubstr(Paid, payment_text) \/ IsSubstr(Success, payment_text)
                           THEN PyTrue ELSE PyFalse)
              ELSE u2
    IN  IF el.join_date # Absent THEN Put(u3, "join_date", GetText(el.join_date)) ELSE u3

\* a faulty variant of PaginationInfo: the text is never read
PaginationInfo_Ignored(page_info) == [kind |-> "no_of", current |-> 0, total |-> 0]

\* lines 352-361 on the text of the .pagination-info element: "of" for two
\* numbers read, "no_of" for a text without "of" in any case, "not_int" for
\* ValueError or IndexError.  parts[0] ends before the first "of", parts[1]
\* before the second; split() cuts at blanks.
PaginationInfo(page_info) ==
    LET text == StrStrip(page_info)
        Ofs(s) == { i \in 1..(Len(s) - 1) : s[i] = "o" /\ s[i + 1] = "f" }
        Least(S) == CHOOSE i \in S : \A j \in S : i <= j
        Most(S) == CHOOSE i \in S : \A j \in S : i >= j
        Blanks(s) == { i \in 1..Len(s) : s[i] = " " }
        Before(s) == IF Ofs(s) = {} THEN s ELSE SubSeq(s, 1, Least(Ofs(s)) - 1)
        After(s) == SubSeq(s, Least(Ofs(s)) + 2, Len(s))
        LastWord(s) == SubSeq(s, Most(Blanks(s) \cup {0}) + 1, Len(s))
        FirstWord(s) == SubSeq(s, 1, Least(Blanks(s) \cup {Len(s) + 1}) - 1)
        Numbers(current, total) ==
            IF current.ok /\ total.ok
            THEN [kind |-> "of", current |-> current.v, total |-> total.v]
            ELSE [kind |-> "not_int", current |-> 0, total |-> 0]
    IN  IF ~IsSubstr(<<"o", "f">>, StrLower(text))
        THEN [kind |-> "no_of", current |-> 0, total |-> 0]
        ELSE IF Ofs(text) = {}
             THEN [kind |-> "not_int", current |-> 0, total |-> 0]
             ELSE Numbers(IntOfText(LastWord(StrStrip(Before(text)))),
                          IntOfText(FirstWord(StrStrip(Before(After(text))))))

\* _check_for_next_page; the .pagination-info of a page is given as its text
\* (kind "text") or as what lines 352-361 make of it
CheckForNextPage(page) ==
    LET Decide(info) ==
            IF info.kind = "of"
            THEN info.current < info.total
            ELSE page.next = "link"
    IN  Decide(IF page.info.kind = "text" THEN PaginationInfo(page.info.text)
               ELSE page.info)

\* _parse_user_data: (user_data, has_next_page)
ParseUserData(page, p) ==
    [users |-> [i \in 1..Len(page.items) |-> ParseElement(page.items[i], p, i)],
     has_next |-> CheckForNextPage(page)]

(* --------------------------- normalisation ----------------------------- *)

\* the values 'true', 'yes', 'paid', 'success', '1' of line 394
\* a faulty variant of PaidWords: "yes" is missing
PaidWords_NoYes ==
    { <<"t", "r", "u", "e">>, Paid, Success, <<"1">> }

PaidWords ==
    { <<"t", "r", "u", "e">>, <<"y", "e", "s">>, Paid, Success, <<"1">> }

\* a faulty variant of DateFormats: the month-first format is tried before the
\* day-first one
DateFormats_MonthFirst ==
    << "%Y-%m-%d", "%m/%d/%Y", "%d/%m/%Y", "%b %d, %Y", "%d %b %Y", "%B %d, %Y",
       "%Y-%m-%d %H:%M:%S" >>

\* date_formats, in the order they are tried
DateFormats ==
    << "%Y-%m-%d", "%d/%m/%Y", "%m/%d/%Y", "%b %d, %Y", "%d %b %Y", "%B %d, %Y",
       "%Y-%m-%d %H:%M:%S" >>

\* datetime.strptime(text, fmt).isoformat() for the date texts of the model;
\* PyNone stands for ValueError.  A date text is a one-element tuple.
Strptime(text, fmt) ==
    CASE text = <<"2023-05-15">> /\ fmt = "%Y-%m-%d" -> <<"2023-05-15T00:00:00">>
      [] text = <<"06/20/2023">> /\ fmt = "%m/%d/%Y" -> <<"2023-06-20T00:00:00">>
      [] text = <<"01/02/2023">> /\ fmt = "%d/%m/%Y" -> <<"2023-02-01T00:00:00">>
      [] text = <<"01/02/2023">> /\ fmt = "%m/%d/%Y" -> <<"2023-01-02T00:00:00">>
      [] OTHER -> PyNone

\* the loop over date_formats: the first format that parses, else the text
\* is left as it is
ParseJoinDate(text) ==
    LET hits == { k \in 1..Len(DateFormats) : Strptime(text, DateFormats[k]) # PyNone }
    IN  IF hits = {}
        THEN text
        ELSE Strptime(text, DateFormats[CHOOSE k \in hits : \A m \in hits : k <= m])

\* a faulty variant of ValidateUserRecord: every identifying field is asked for
ValidateUserRecord_NeedsBoth(user) ==
    LET has_identifier ==
            \A f \in {"name", "email"} : f \in DOMAIN user /\ Truthy(user[f])
        has_required == \A f \in {"id", "scrape_date"} : f \in DOMAIN user
    IN  has_required /\ has_identifier

\* _validate_user_record
ValidateUserRecord(user) ==
    LET has_identifier ==
            \E f \in {"name", "email"} : f \in DOMAIN user /\ Truthy(user[f])
        has_required == \A f \in {"id", "scrape_date"} : f \in DOMAIN user
    IN  has_required /\ has_identifier

\* the body of the try block of _process_user_data raises: .strip() on a
\* name or e-mail that is not text
ProcessRaises(user) ==
    \/ "name" \in DOMAIN user /\ ~IsStr(user["name"])
    \/ "email" \in DOMAIN user /\ ~IsStr(user["email"])

\* lines 381-430: the cleaned copy of one raw record, datetime.now() giving now
CleanUserAt(user, now) ==
    LET CleanName(u) ==
            IF "name" \in DOMAIN u
            THEN Put(u, "name", StrTitle(StrStrip(u["name"])))
            ELSE u
        CleanEmail(u) ==
            IF "email" \in DOMAIN u
            THEN Put(u, "email", StrLower(StrStrip(u["email"])))
            ELSE u
        CleanPaid(u) ==
            IF "paid" \in DOMAIN u /\ IsStr(u["paid"])
            THEN Put(u, "paid",
                     IF StrLower(u["paid"]) \in PaidWords THEN PyTrue ELSE PyFalse)
            ELSE u
        CleanJoinDate(u) ==
            IF "join_date" \in DOMAIN u /\ Truthy(u["join_date"]) /\ IsStr(u["join_date"])
            THEN Put(u, "join_date", ParseJoinDate(u["join_date"]))
            ELSE u
        EmailValid(u) ==
            IF "email" \in DOMAIN u /\ Truthy(u["email"])
            THEN Put(u, "email_valid",
                     IF ~HasChar(u["email"], "@") \/ ~HasChar(u["email"], ".")
                     THEN PyFalse ELSE PyTrue)
            ELSE u
    IN  Put(EmailValid(CleanJoinDate(CleanPaid(CleanEmail(CleanName(user))))),
            "processed_timestamp", now)

\* the cleaned copy made by the run's own call
CleanUser(user) == CleanUserAt(user, Now)

\* one pass of the for loop: is the record appended to processed_data
Accepted(user) == ~ProcessRaises(user) /\ ValidateUserRecord(CleanUser(user))

\* _process_user_data, datetime.now() giving now
RECURSIVE ProcessUserDataAt(_, _)
ProcessUserDataAt(data, now) ==
    IF data = <<>>
    THEN <<>>
    ELSE IF Accepted(Head(data))
         THEN <<CleanUserAt(Head(data), now)>> \o ProcessUserDataAt(Tail(data), now)
         ELSE ProcessUserDataAt(Tail(data), now)

(* ------------------------------ the User model ------------------------- *)

\* User.validate(data), values being those of the user records: the exception
\* it raises ("none" when it returns) and data as validate leaves it.
\* BaseModel.validate (lines 85-107) comes first: the required fields, then the
\* field types, a value for a str field being replaced by str(value) and a
\* value for paid that is not None having to be a bool; then the e-mail is
\* matched against [^@]+@[^@]+\.[^@]+ and a paid that is text is converted.
UserValidate(data) ==
    LET required_fields == {"id", "created_at", "scrape_date", "paid"}
        str_fields == {"id", "created_at", "name", "email", "join_date", "scrape_date"}
        IsBool(v) == v \in {PyTrue, PyFalse}
        IsText(v) == v \notin {PyNone, PyTrue, PyFalse}
        StrOf(v) == IF v = PyTrue THEN <<"T", "r", "u", "e">>
                    ELSE IF v = PyFalse THEN <<"F", "a", "l", "s", "e">>
                    ELSE v
        TypesOk(d) == "paid" \in DOMAIN d /\ d["paid"] # PyNone => IsBool(d["paid"])
        AsStr(d) ==
            [f \in DOMAIN d |->
                IF f \in str_fields /\ d[f] # PyNone THEN StrOf(d[f]) ELSE d[f]]
        Match(email) ==
            \E a \in 2..Len(email) :
                /\ email[a] = "@"
                /\ \A i \in 1..(a - 1) : email[i] # "@"
                /\ \E dot \in (a + 2)..(Len(email) - 1) :
                     /\ email[dot] = "."
                     /\ \A i \in (a + 1)..(dot - 1) : email[i] # "@"
                     /\ email[dot + 1] # "@"
        EmailOk(d) == ("email" \in DOMAIN d /\ Truthy(d["email"])) => Match(d["email"])
        ConvertPaid(d) ==
            IF "paid" \in DOMAIN d /\ IsText(d["paid"])
            THEN Put(d, "paid",
                     IF StrLower(d["paid"]) \in { <<"t", "r", "u", "e">>,
                                                  <<"y", "e", "s">>, <<"1">> }
                     THEN PyTrue ELSE PyFalse)
            ELSE d
    IN  IF ~(required_fields \subseteq DOMAIN data) \/ ~TypesOk(data)
        THEN [raised |-> "ValidationError", data |-> data]
        ELSE IF ~EmailOk(AsStr(data))
             THEN [raised |-> "ValidationError", data |-> AsStr(data)]
             ELSE [raised |-> "none", data |-> ConvertPaid(AsStr(data))]

\* User(**kwargs), that is BaseModel.__init__ (lines 50-71): a missing id and
\* created_at are filled in, then validate is called and the attributes are set
User(kwargs) ==
    LET WithId(k) == IF "id" \in DOMAIN k THEN k ELSE Put(k, "id", <<0, 0>>)
        WithCreatedAt(k) ==
            IF "created_at" \in DOMAIN k THEN k ELSE Put(k, "created_at", Now)
    IN  UserValidate(WithCreatedAt(WithId(kwargs)))

\* a faulty variant of ProcessUserData: accepted records are put at the front
RECURSIVE ProcessUserData_Reversed(_)
ProcessUserData_Reversed(data) ==
    IF data = <<>>
    THEN <<>>
    ELSE IF Accepted(Head(data))
         THEN ProcessUserData_Reversed(Tail(data)) \o <<CleanUser(Head(data))>>
         ELSE ProcessUserData_Reversed(Tail(data))

\* _process_user_data, the run's own call
ProcessUserData(data) == ProcessUserDataAt(data, Now)

(* ------------------------- financial values ---------------------------- *)

\* The values of a financial record: a Python int, a float (held as a whole
\* number of hundredths, enough for the two-decimal texts of the model), the
\* float infinity, a text, a timestamp, a generated id.
PyInt(n) == [t |-> "int", v |-> n, s |-> <<>>]
PyFloat(h) == [t |-> "float", v |-> h, s |-> <<>>]
PyInf == [t |-> "inf", v |-> 0, s |-> <<>>]
PyText(s) == [t |-> "str", v |-> 0, s |-> s]
\* datetime.now().isoformat() in call number c
PyTime(c) == [t |-> "time", v |-> c, s |-> <<>>]
\* str(uuid.uuid4()), the k-th one drawn
PyUuid(k) == [t |-> "uuid", v |-> k, s |-> <<>>]

\* isinstance(x, str), isinstance(x, int), isinstance(x, float)
IsStrValue(x) == x.t \in {"str", "time", "uuid"}
IsIntValue(x) == x.t = "int"
IsFloatValue(x) == x.t \in {"float", "inf"}

\* value.replace(',', '')
RemoveCommas(s) == LET Keep(c) == c # "," IN SelectSeq(s, Keep)

\* re.sub(r'[^\d.]', '', currency_string)
CleanCurrency(s) == LET Keep(c) == IsDigit(c) \/ c = "." IN SelectSeq(s, Keep)

\* float(cleaned) for a text of digits and dots, in hundredths; ok is FALSE
\* for ValueError (no digit, or more than one dot)
FloatOfDigits(s) ==
    LET dots == { i \in 1..Len(s) : s[i] = "." }
        d == IF dots = {} THEN Len(s) + 1 ELSE CHOOSE i \in dots : TRUE
        whole == SubSeq(s, 1, d - 1)
        frac == SubSeq(s, d + 1, Len(s))
        frac2 == SubSeq(frac \o <<"0", "0">>, 1, 2)
    IN  IF Cardinality(dots) <= 1 /\ (whole \o frac) # <<>>
        THEN [ok |-> TRUE, v |-> 100 * DigitsVal(whole) + DigitsVal(frac2)]
        ELSE [ok |-> FALSE, v |-> 0]

\* _convert_currency_to_float
ConvertCurrencyToFloat(currency_string) ==
    LET f == FloatOfDigits(CleanCurrency(currency_string))
    IN  IF f.ok THEN PyFloat(f.v) ELSE PyFloat(0)

\* a faulty variant of RoundDiv: the quotient is cut off
RoundDiv_Truncated(a, b) == a \div b

\* round(a / b, 0) for whole a and b > 0: to the nearest whole number, a tie
\* going to the even one
RoundDiv(a, b) ==
    LET q == a \div b
        r == a % b
    IN  IF 2 * r < b THEN q
        ELSE IF 2 * r > b THEN q + 1
        ELSE IF q % 2 = 0 THEN q ELSE q + 1

(* ------------------------- financial page parsing ---------------------- *)

\* the text of the element a metric's selector matches, Absent without one
MetricText(page, key) == IF key \in DOMAIN page THEN page[key] ELSE Absent

\* _extract_metric
ExtractMetric(data, key, text, convert_to_float) ==
    IF text = Absent
    THEN data
    ELSE LET value == GetText(text)
             n == IntOfText(RemoveCommas(value))
         IN  IF convert_to_float
             THEN Put(data, key, ConvertCurrencyToFloat(value))
             ELSE Put(data, key, IF n.ok THEN PyInt(n.v) ELSE PyText(value))

\* FinancialScraper._calculate_derived_metrics: a comparison of a text with 0
\* raises TypeError, which ends the try block where it stands
CalculateDerivedMetrics(data) ==
    LET paid == data["paid_users"]
        total == data["total_users"]
        d1 == IF paid.v > 0
              THEN Put(data, "avg_revenue_per_user",
                       PyFloat(RoundDiv(data["total_gmv"].v, paid.v)))
              ELSE data
    IN  IF ~IsIntValue(paid) THEN data
        ELSE IF ~IsIntValue(total) THEN d1
        ELSE IF total.v > 0
             THEN Put(d1, "conversion_rate", PyFloat(RoundDiv(10000 * paid.v, total.v)))
             ELSE d1

\* _parse_financial_data, datetime.now() giving now
ParseFinancialData(page, now) ==
    LET d0 == [total_users |-> PyInt(0), paid_users |-> PyInt(0),
               total_gmv |-> PyFloat(0), total_profit |-> PyFloat(0),
               avg_revenue_per_user |-> PyFloat(0), conversion_rate |-> PyFloat(0),
               timestamp |-> now]
        d1 == ExtractMetric(d0, "total_users", MetricText(page, "total_users"), FALSE)
        d2 == ExtractMetric(d1, "paid_users", MetricText(page, "paid_users"), FALSE)
        d3 == ExtractMetric(d2, "total_gmv", MetricText(page, "total_gmv"), TRUE)
        d4 == ExtractMetric(d3, "total_profit", MetricText(page, "total_profit"), TRUE)
    IN  CalculateDerivedMetrics(d4)

\* the numeric fields of _process_financial_data, in the order of the loop
NumericFields ==
    << "total_users", "paid_users", "total_gmv", "total_profit",
       "avg_revenue_per_user", "conversion_rate" >>

\* int(x) / float(x) of one numeric field; ok is FALSE when it raises
CoerceField(field, x) ==
    IF field \in {"total_users", "paid_users"}
    THEN IF IsIntValue(x) THEN [ok |-> TRUE, v |-> x]
         ELSE IF x.t = "str" /\ IntOfText(x.s).ok
              THEN [ok |-> TRUE, v |-> PyInt(IntOfText(x.s).v)]
              ELSE [ok |-> FALSE, v |-> x]
    ELSE IF IsFloatValue(x) THEN [ok |-> TRUE, v |-> x]
         ELSE IF IsIntValue(x) THEN [ok |-> TRUE, v |-> PyFloat(100 * x.v)]
         ELSE [ok |-> FALSE, v |-> x]

\* the loop of _process_financial_data from field k on: the first conversion
\* that raises ends the loop, the fields after it are left as they are
RECURSIVE CoerceFrom(_, _)
CoerceFrom(data, k) ==
    IF k > Len(NumericFields)
    THEN data
    ELSE LET f == NumericFields[k]
         IN  IF f \notin DOMAIN data
             THEN CoerceFrom(data, k + 1)
             ELSE IF CoerceField(f, data[f]).ok
                  THEN CoerceFrom(Put(data, f, CoerceField(f, data[f]).v), k + 1)
                  ELSE data

\* _process_financial_data, datetime.now() giving now
ProcessFinancialData(financial_data, now) ==
    CoerceFrom(Put(financial_data, "processed_at", now), 1)

(* ------------------------- FinancialMetrics model ---------------------- *)

\* float(text): blanks, an optional sign, digits with at most one dot
FloatOfText(text) ==
    LET s == StrStrip(text)
        signed == s # <<>> /\ s[1] \in {"-", "+"}
        body == IF signed THEN Tail(s) ELSE s
        f == FloatOfDigits(body)
    IN  IF body = CleanCurrency(body) /\ f.ok
        THEN [ok |-> TRUE, v |-> IF signed /\ s[1] = "-" THEN 0 - f.v ELSE f.v]
        ELSE [ok |-> FALSE, v |-> 0]

\* int(x) as FinancialMetrics.validate calls it on a value that is not an
\* int: the exception it raises ("none" when it returns) and the value
IntOfValue(x) ==
    CASE x.t = "float" ->
            [exc |-> "none",
             v |-> PyInt(IF x.v >= 0 THEN x.v \div 100 ELSE 0 - ((0 - x.v) \div 100))]
      [] x.t = "inf" -> [exc |-> "OverflowError", v |-> x]
      [] x.t = "str" ->
            IF IntOfText(x.s).ok
            THEN [exc |-> "none", v |-> PyInt(IntOfText(x.s).v)]
            ELSE [exc |-> "ValueError", v |-> x]
      [] x.t \in {"time", "uuid"} -> [exc |-> "ValueError", v |-> x]
      [] OTHER -> [exc |-> "TypeError", v |-> x]

\* float(x) as FinancialMetrics.validate calls it on a value that is not a
\* float
FloatOfValue(x) ==
    CASE x.t = "int" -> [exc |-> "none", v |-> PyFloat(100 * x.v)]
      [] x.t = "str" ->
            IF FloatOfText(x.s).ok
            THEN [exc |-> "none", v |-> PyFloat(FloatOfText(x.s).v)]
            ELSE [exc |-> "ValueError", v |-> x]
      [] x.t \in {"time", "uuid"} -> [exc |-> "ValueError", v |-> x]
      [] OTHER -> [exc |-> "TypeError", v |-> x]

\* FinancialMetrics.required_fields and field_types
FinRequiredFields ==
    {"id", "created_at", "total_users", "paid_users", "total_gmv", "total_profit",
     "timestamp"}
FinIntFields == {"total_users", "paid_users"}
FinFloatFields == {"total_gmv", "total_profit", "avg_revenue_per_user", "conversion_rate"}
FinStrFields == {"id", "created_at", "timestamp", "processed_at"}

\* the order in which validate converts the numeric fields
FinConversions ==
    << "total_users", "paid_users", "total_gmv", "total_profit",
       "avg_revenue_per_user", "conversion_rate" >>

\* except (ValueError, TypeError): raise ValidationError(...)
AsValidationError(exc) ==
    IF exc \in {"ValueError", "TypeError"} THEN "ValidationError" ELSE exc

\* lines 307-325: the numeric conversions from field k on; the first one that
\* raises ends validate with that exception
RECURSIVE FinConvertFrom(_, _)
FinConvertFrom(data, k) ==
    IF k > Len(FinConversions)
    THEN [raised |-> "none", data |-> data]
    ELSE LET f == FinConversions[k]
             isint == f \in FinIntFields
             done == f \notin DOMAIN data
                     \/ (isint /\ IsIntValue(data[f]))
                     \/ (~isint /\ IsFloatValue(data[f]))
             Converted(c) ==
                 IF c.exc = "none"
                 THEN FinConvertFrom(Put(data, f, c.v), k + 1)
                 ELSE [raised |-> AsValidationError(c.exc), data |-> data]
         IN  IF done
             THEN FinConvertFrom(data, k + 1)
             ELSE Converted(IF isint THEN IntOfValue(data[f]) ELSE FloatOfValue(data[f]))

\* BaseModel.validate for FinancialMetrics, on converted numeric fields: the
\* required fields are there and each numeric field has its type.  (A text
\* field holding another value is replaced by str(value) and never rejected;
\* the records of the model hold texts in their text fields.)
BaseValidate(data) ==
    /\ FinRequiredFields \subseteq DOMAIN data
    /\ \A f \in DOMAIN data :
        /\ f \in FinIntFields => IsIntValue(data[f])
        /\ f \in FinFloatFields => IsFloatValue(data[f])

\* lines 331-347: the range checks
FinRangesOk(data) ==
    /\ "total_users" \in DOMAIN data => data["total_users"].v >= 0
    /\ "paid_users" \in DOMAIN data => data["paid_users"].v >= 0
    /\ "total_gmv" \in DOMAIN data => data["total_gmv"].v >= 0
    /\ "conversion_rate" \in DOMAIN data =>
        /\ data["conversion_rate"].t = "float"
        /\ data["conversion_rate"].v >= 0
        /\ data["conversion_rate"].v <= 10000

\* FinancialMetrics.validate: the exception it raises ("none" when it
\* returns) and the data with its numeric fields converted
FinValidate(data) ==
    LET Checked(c) ==
            IF c.raised # "none" THEN c
            ELSE IF ~BaseValidate(c.data) \/ ~FinRangesOk(c.data)
                 THEN [raised |-> "ValidationError", data |-> c.data]
                 ELSE c
    IN  Checked(FinConvertFrom(data, 1))

\* a faulty variant of BaseModelInit: the id is generated in every case
BaseModelInit_NewId(kwargs, k, now) ==
    LET k1 == Put(kwargs, "id", PyUuid(k))
        k2 == IF "created_at" \in DOMAIN k1 THEN k1 ELSE Put(k1, "created_at", now)
    IN  FinValidate(k2)

\* BaseModel.__init__ for FinancialMetrics: the k-th uuid and the time now
\* fill in a missing id and created_at; the attributes are the validated values
BaseModelInit(kwargs, k, now) ==
    LET k1 == IF "id" \in DOMAIN kwargs THEN kwargs ELSE Put(kwargs, "id", PyUuid(k))
        k2 == IF "created_at" \in DOMAIN k1 THEN k1 ELSE Put(k1, "created_at", now)
    IN  FinValidate(k2)

\* the loop of BaseModel.from_list from item i on, models being built so far:
\* an item that raises ValidationError is skipped, any other exception leaves
\* from_list
RECURSIVE FromListFrom(_, _, _, _)
FromListFrom(data_list, i, models, call) ==
    IF i > Len(data_list)
    THEN [raised |-> "none", models |-> models]
    ELSE LET Built(r) ==
                 IF r.raised = "none"
                 THEN FromListFrom(data_list, i + 1, Append(models, r.data), call)
                 ELSE IF r.raised = "ValidationError"
                      THEN FromListFrom(data_list, i + 1, models, call)
                      ELSE [raised |-> r.raised, models |-> <<>>]
         IN  Built(BaseModelInit(data_list[i], 10 * call + i, PyTime(call)))

\* FinancialMetrics.from_list, as call number call
FromList(data_list, call) == FromListFrom(data_list, 1, <<>>, call)

\* FinancialMetrics.calculate_derived_metrics on a validated object
CalculateDerivedMetricsOf(m) ==
    LET avg == IF m["paid_users"].v > 0
               THEN IF m["total_gmv"].t = "inf" THEN PyInf
                    ELSE PyFloat(RoundDiv(m["total_gmv"].v, m["paid_users"].v))
               ELSE PyFloat(0)
        rate == IF m["total_users"].v > 0
                THEN PyFloat(RoundDiv(10000 * m["paid_users"].v, m["total_users"].v))
                ELSE PyFloat(0)
    IN  Put(Put(m, "avg_revenue_per_user", avg), "conversion_rate", rate)

(* ------------------ a strategy's run as a whole ------------------------ *)

\* _scrape_with_requests from page current_page on, the platform serving
\* pages[k] for ?page=k and no page past the last one (the fetch of such a
\* page fails and the error leaves scrape()): what scrape() returns, the pages
\* parsed and the waits between pages
RECURSIVE RequestsFrom(_, _, _, _)
RequestsFrom(pages, current_page, user_data, delays) ==
    LET Parsed(r) ==
            IF r.has_next
            THEN RequestsFrom(pages, current_page + 1, user_data \o r.users, delays + 1)
            ELSE [raised |-> "none", data |-> ProcessUserData(user_data \o r.users),
                  pages |-> current_page, delays |-> delays]
    IN  IF current_page > Len(pages)
        THEN [raised |-> "UserScrapingError", data |-> <<>>,
              pages |-> current_page - 1, delays |-> delays]
        ELSE Parsed(ParseUserData(pages[current_page], current_page))

\* a faulty variant of SeleniumFrom: no wait follows the click
RECURSIVE SeleniumFrom_NoDelay(_, _, _, _)
SeleniumFrom_NoDelay(pages, current_page, user_data, delays) ==
    LET Parsed(r) ==
            IF r.has_next /\ pages[current_page].next # "absent"
            THEN SeleniumFrom_NoDelay(pages, current_page + 1, user_data \o r.users, delays)
            ELSE [raised |-> "none", data |-> ProcessUserData(user_data \o r.users),
                  pages |-> current_page, delays |-> delays]
    IN  IF current_page > Len(pages) \/ Len(pages[current_page].items) = 0
        THEN [raised |-> "none", data |-> ProcessUserData(user_data),
              pages |-> current_page - 1, delays |-> delays]
        ELSE Parsed(ParseUserData(pages[current_page], current_page))

\* _scrape_with_selenium from page current_page on, the browser showing
\* pages[k] after k - 1 clicks: the wait for the user list times out on a page
\* without user items or past the last page, and the loop ends; without a next
\* control find_element raises NoSuchElementException, and the loop ends; a
\* control that is there is displayed and enabled, and the click goes through
RECURSIVE SeleniumFrom(_, _, _, _)
SeleniumFrom(pages, current_page, user_data, delays) ==
    LET Parsed(r) ==
            IF r.has_next /\ pages[current_page].next # "absent"
            THEN SeleniumFrom(pages, current_page + 1, user_data \o r.users, delays + 1)
            ELSE [raised |-> "none", data |-> ProcessUserData(user_data \o r.users),
                  pages |-> current_page, delays |-> delays]
    IN  IF current_page > Len(pages) \/ Len(pages[current_page].items) = 0
        THEN [raised |-> "none", data |-> ProcessUserData(user_data),
              pages |-> current_page - 1, delays |-> delays]
        ELSE Parsed(ParseUserData(pages[current_page], current_page))

(* ------------------------------- state --------------------------------- *)

VARIABLES
    authenticated,  \* authenticator.authenticated
    driver,         \* authenticator.driver is not None
    scraper,        \* "user" (UserScraper) or "financial" (FinancialScraper)
    use_selenium,   \* the use_selenium argument of scrape()
    max_retries,    \* settings.MAX_RETRIES
    pc,             \* position of the run
    current_page,   \* _scrape_with_*: current_page
    has_next_page,  \* _scrape_with_*: has_next_page
    user_data,      \* _scrape_with_*: the accumulated raw records
    url,            \* _fetch_with_retry: url
    retry_count,    \* _fetch_with_retry: retry_count
    last_error,     \* _fetch_with_retry: last_error
    attempts,       \* outcomes of the session.get calls of the current _fetch_with_retry
    sleeps,         \* the backoff waits of the current _fetch_with_retry, in seconds
    content,        \* the page held by the run (response.text or driver.page_source)
    log,            \* the pages fetched and parsed and the waits between pages, in order
    result,         \* what scrape() returned
    error,          \* the exception scrape() or the constructor raised
    sink,           \* what was handed to save_to_json / save_to_csv
    calls           \* the normalisation calls made again on the same raw input, with what each gave

vars ==
    << authenticated, driver, scraper, use_selenium, max_retries, pc, current_page,
       has_next_page, user_data, url, retry_count, last_error, attempts, sleeps,
       content, log, result, error, sink, calls >>

NoUrl == [base |-> "none", page |-> 0]
NoError == [type |-> "none", at |-> "none", page |-> 0, url |-> NoUrl,
            last_error |-> NoOutcome, attempts |-> 0]
NoResult == [set |-> FALSE, data |-> <<>>]

\* the exception class of a scraper
ErrType(s) == IF s = "user" THEN "UserScrapingError" ELSE "FinancialScrapingError"

\* an entry of the log: what happened, on which page, the seconds waited and,
\* for a parse, whether the page signalled a next page
Event(e, p, t, m) == [ev |-> e, page |-> p, t |-> t, more |-> m]

\* what the constructor arguments and the settings can be
Init ==
    /\ authenticated \in BOOLEAN
    /\ driver \in BOOLEAN
    /\ scraper \in {"user", "financial"}
    /\ use_selenium \in BOOLEAN
    \* the authenticator of an authenticated session owns a driver exactly when
    \* Selenium was asked for
    /\ authenticated => driver = use_selenium
    \* the financial run is followed on its requests branch
    /\ scraper = "financial" => ~use_selenium
    \* the Selenium strategy never reads MAX_RETRIES: one value is explored
    /\ max_retries \in (IF use_selenium /\ driver THEN {MaxRetriesBound} ELSE 0..MaxRetriesBound)
    /\ pc = "start"
    /\ current_page = 0
    /\ has_next_page = FALSE
    /\ user_data = <<>>
    /\ url = NoUrl
    /\ retry_count = 0
    /\ last_error = NoOutcome
    /\ attempts = <<>>
    /\ sleeps = <<>>
    /\ content = NoContent
    /\ log = <<>>
    /\ result = NoResult
    /\ error = NoError
    /\ sink = NoResult
    /\ calls = <<>>

(* --------------------- construction and dispatch ----------------------- *)

\* UserScraper.__init__ / FinancialScraper.__init__ on an authenticator that
\* is not authenticated
ConstructRejected ==
    /\ pc = "start"
    /\ ~authenticated
    /\ pc' = "failed"
    /\ error' = [NoError EXCEPT !.type = ErrType(scraper), !.at = "init"]
    /\ UNCHANGED << authenticated, driver, scraper, use_selenium, max_retries, calls,
                    current_page, has_next_page, user_data, url, retry_count,
                    last_error, attempts, sleeps, content, log, result, sink >>

\* a faulty variant of Construct: the authenticated flag is not looked at
Construct_Unchecked ==
    /\ pc = "start"
    /\ pc' = "constructed"
    /\ UNCHANGED << authenticated, driver, scraper, use_selenium, max_retries, calls,
                    current_page, has_next_page, user_data, url, retry_count,
                    last_error, attempts, sleeps, content, log, result, error, sink >>

\* UserScraper.__init__ / FinancialScraper.__init__ on an authenticated one
Construct ==
    /\ pc = "start"
    /\ authenticated
    /\ pc' = "constructed"
    /\ UNCHANGED << authenticated, driver, scraper, use_selenium, max_retries, calls,
                    current_page, has_next_page, user_data, url, retry_count,
                    last_error, attempts, sleeps, content, log, result, error, sink >>

\* UserScraper.scrape -> _scrape_with_requests, up to the while loop
ScrapeWithRequests ==
    /\ pc = "constructed"
    /\ scraper = "user"
    /\ ~(use_selenium /\ driver)
    /\ user_data' = <<>>
    /\ current_page' = 1
    /\ has_next_page' = TRUE
    /\ pc' = "loop"
    /\ UNCHANGED << authenticated, driver, scraper, use_selenium, max_retries, calls, url,
                    retry_count, last_error, attempts, sleeps, content, log, result, error,
                    sink >>

\* FinancialScraper.scrape -> _scrape_with_requests: the call of
\* _fetch_with_retry(settings.ANALYTICS_URL)
FinScrapeWithRequests ==
    /\ pc = "constructed"
    /\ scraper = "financial"
    /\ url' = [base |-> "ANALYTICS_URL", page |-> 0]
    /\ retry_count' = 0
    /\ last_error' = NoOutcome
    /\ attempts' = <<>>
    /\ sleeps' = <<>>
    /\ pc' = "retry"
    /\ UNCHANGED << authenticated, driver, scraper, use_selenium, max_retries, calls,
                    current_page, has_next_page, user_data, content, log, result,
                    error, sink >>

(* ------------------------- _scrape_with_requests ----------------------- *)

\* a faulty variant of LoopEnter: the attempt counter goes on from page to page
LoopEnter_SharedBudget ==
    /\ pc = "loop"
    /\ has_next_page
    /\ current_page <= MaxPages
    /\ url' = [base |-> "COURSE_URL", page |-> current_page]
    /\ retry_count' = IF current_page > 1 /\ max_retries > 0 THEN 1 ELSE 0
    /\ last_error' = NoOutcome
    /\ attempts' = <<>>
    /\ sleeps' = <<>>
    /\ pc' = "retry"
    /\ UNCHANGED << authenticated, driver, scraper, use_selenium, max_retries, calls,
                    current_page, has_next_page, user_data, content, log, result,
                    error, sink >>

\* while has_next_page: the page URL is built and _fetch_with_retry is called
LoopEnter ==
    /\ pc = "loop"
    /\ has_next_page
    /\ current_page <= MaxPages
    /\ url' = [base |-> "COURSE_URL", page |-> current_page]
    /\ retry_count' = 0
    /\ last_error' = NoOutcome
    /\ attempts' = <<>>
    /\ sleeps' = <<>>
    /\ pc' = "retry"
    /\ UNCHANGED << authenticated, driver, scraper, use_selenium, max_retries, calls,
                    current_page, has_next_page, user_data, content, log, result,
                    error, sink >>

\* the loop ends: the collected records go to _process_user_data
LoopExit ==
    /\ pc = "loop"
    /\ ~has_next_page
    /\ pc' = "process"
    /\ UNCHANGED << authenticated, driver, scraper, use_selenium, max_retries, calls,
                    current_page, has_next_page, user_data, url, retry_count,
                    last_error, attempts, sleeps, content, log, result, error, sink >>

(* --------------------------- _fetch_with_retry ------------------------- *)

\* a faulty variant of CanAttempt: one attempt too many
CanAttempt_Inclusive(rc, mr) == rc <= mr

\* while retry_count < max_retries
CanAttempt(rc, mr) == rc < mr

\* wait_time = 2 ** retry_count
WaitTime(rc) == 2 ^ rc

\* where a scraper goes on once _fetch_with_retry has returned
AfterFetch(s) == IF s = "user" THEN "parse" ELSE "fin_fetched"

\* session.get and raise_for_status succeed: response.text is returned
GetOk ==
    /\ pc = "retry"
    /\ CanAttempt(retry_count, max_retries)
    /\ \E page \in Pages :
        /\ attempts' = Append(attempts, Response(page))
        /\ content' = ResponseText(Response(page))
    /\ log' = Append(log, Event("fetch", url.page, 0, FALSE))
    /\ pc' = AfterFetch(scraper)
    /\ UNCHANGED << authenticated, driver, scraper, use_selenium, max_retries, calls,
                    current_page, has_next_page, user_data, url, retry_count,
                    last_error, sleeps, result, error, sink >>

\* session.get or raise_for_status raises a RequestException
GetFail ==
    /\ pc = "retry"
    /\ CanAttempt(retry_count, max_retries)
    /\ \E o \in Failures :
        /\ IsRequestException(o)
        /\ attempts' = Append(attempts, Failure(o))
        /\ last_error' = o
    /\ retry_count' = retry_count + 1
    /\ pc' = "backoff"
    /\ UNCHANGED << authenticated, driver, scraper, use_selenium, max_retries, calls,
                    current_page, has_next_page, user_data, url, sleeps, content,
                    log, result, error, sink >>

\* a faulty variant of Backoff: no wait after the attempt that used up the retries
Backoff_NotAfterLast ==
    /\ pc = "backoff"
    /\ sleeps' = IF CanAttempt(retry_count, max_retries)
                 THEN Append(sleeps, WaitTime(retry_count))
                 ELSE sleeps
    /\ pc' = "retry"
    /\ UNCHANGED << authenticated, driver, scraper, use_selenium, max_retries, calls,
                    current_page, has_next_page, user_data, url, retry_count,
                    last_error, attempts, content, log, result, error, sink >>

\* time.sleep(wait_time)
Backoff ==
    /\ pc = "backoff"
    /\ sleeps' = Append(sleeps, WaitTime(retry_count))
    /\ pc' = "retry"
    /\ UNCHANGED << authenticated, driver, scraper, use_selenium, max_retries, calls,
                    current_page, has_next_page, user_data, url, retry_count,
                    last_error, attempts, content, log, result, error, sink >>

\* a faulty variant of GiveUp: the failure is recorded but the loop is left as if it
\* had ended, and what was collected is processed and returned
GiveUp_Swallowed ==
    /\ pc = "retry"
    /\ ~CanAttempt(retry_count, max_retries)
    /\ error' = [type |-> ErrType(scraper), at |-> "fetch", page |-> url.page,
                 url |-> url, last_error |-> last_error, attempts |-> max_retries]
    /\ pc' = "process"
    /\ UNCHANGED << authenticated, driver, scraper, use_selenium, max_retries, calls,
                    current_page, has_next_page, user_data, url, retry_count,
                    last_error, attempts, sleeps, content, log, result, sink >>

\* the retries are used up: the error is raised, wrapped by _scrape_with_requests
\* and by scrape(), and leaves scrape()
GiveUp ==
    /\ pc = "retry"
    /\ ~CanAttempt(retry_count, max_retries)
    /\ error' = [type |-> ErrType(scraper), at |-> "fetch", page |-> url.page,
                 url |-> url, last_error |-> last_error, attempts |-> max_retries]
    /\ pc' = "failed"
    /\ UNCHANGED << authenticated, driver, scraper, use_selenium, max_retries, calls,
                    current_page, has_next_page, user_data, url, retry_count,
                    last_error, attempts, sleeps, content, log, result, sink >>

(* ------------------- the rest of the loop body, and after -------------- *)

\* a faulty variant of ParsePage: the page counter is not advanced
ParsePage_NoAdvance ==
    /\ pc = "parse"
    /\ LET r == ParseUserData(content, current_page)
       IN  /\ user_data' = user_data \o r.users
           /\ has_next_page' = r.has_next
           /\ pc' = IF r.has_next THEN "delay" ELSE "loop"
    /\ log' = Append(log, Event("parse", current_page, 0, has_next_page'))
    /\ content' = NoContent
    /\ retry_count' = 0
    /\ last_error' = NoOutcome
    /\ attempts' = <<>>
    /\ sleeps' = <<>>
    /\ UNCHANGED << authenticated, driver, scraper, use_selenium, max_retries, calls, url,
                    current_page, result, error, sink >>

\* lines 117-124: the page is parsed and its records are appended.  The frame
\* of the _fetch_with_retry call that returned the page is gone.
ParsePage ==
    /\ pc = "parse"
    /\ LET r == ParseUserData(content, current_page)
       IN  /\ user_data' = user_data \o r.users
           /\ has_next_page' = r.has_next
           /\ current_page' = IF r.has_next THEN current_page + 1 ELSE current_page
           /\ pc' = IF r.has_next THEN "delay" ELSE "loop"
    /\ log' = Append(log, Event("parse", current_page, 0, has_next_page'))
    /\ content' = NoContent
    /\ retry_count' = 0
    /\ last_error' = NoOutcome
    /\ attempts' = <<>>
    /\ sleeps' = <<>>
    /\ UNCHANGED << authenticated, driver, scraper, use_selenium, max_retries, calls, url,
                    result, error, sink >>

\* a faulty variant of Delay: the wait between pages is left out
Delay_Skipped ==
    /\ pc = "delay"
    /\ pc' = "loop"
    /\ UNCHANGED << authenticated, driver, scraper, use_selenium, max_retries, calls,
                    current_page, has_next_page, user_data, url, retry_count,
                    last_error, attempts, sleeps, content, log, result, error, sink >>

\* time.sleep(settings.REQUEST_DELAY)
Delay ==
    /\ pc = "delay"
    /\ log' = Append(log, Event("delay", current_page - 1, REQUEST_DELAY, FALSE))
    /\ pc' = "loop"
    /\ UNCHANGED << authenticated, driver, scraper, use_selenium, max_retries, calls,
                    current_page, has_next_page, user_data, url, retry_count,
                    last_error, attempts, sleeps, content, result, error, sink >>

\* processed_data = self._process_user_data(user_data); return processed_data
ProcessData ==
    /\ pc = "process"
    /\ result' = [set |-> TRUE, data |-> ProcessUserData(user_data)]
    /\ pc' = "returned"
    /\ UNCHANGED << authenticated, driver, scraper, use_selenium, max_retries, calls,
                    current_page, has_next_page, user_data, url, retry_count,
                    last_error, attempts, sleeps, content, log, error, sink >>

\* main.scrape_user_data: the returned records are saved
Save ==
    /\ pc = "returned"
    /\ scraper = "user"
    /\ sink' = result
    /\ pc' = "done"
    /\ UNCHANGED << authenticated, driver, scraper, use_selenium, max_retries, calls,
                    current_page, has_next_page, user_data, url, retry_count,
                    last_error, attempts, sleeps, content, log, result, error >>

(* ------------------------- _scrape_with_selenium ----------------------- *)

SeleniumError(p) ==
    [NoError EXCEPT !.type = "UserScrapingError", !.at = "selenium", !.page = p]

\* UserScraper.scrape -> _scrape_with_selenium, up to driver.get
ScrapeWithSelenium ==
    /\ pc = "constructed"
    /\ scraper = "user"
    /\ use_selenium /\ driver
    /\ user_data' = <<>>
    /\ current_page' = 1
    /\ has_next_page' = TRUE
    /\ pc' = "sel_open"
    /\ UNCHANGED << authenticated, driver, scraper, use_selenium, max_retries, calls, url,
                    retry_count, last_error, attempts, sleeps, content, log, result, error,
                    sink >>

\* self.driver.get(settings.COURSE_URL)
SelOpen ==
    /\ pc = "sel_open"
    /\ log' = Append(log, Event("open", current_page, 0, FALSE))
    /\ pc' = "sel_loop"
    /\ UNCHANGED << authenticated, driver, scraper, use_selenium, max_retries, calls,
                    current_page, has_next_page, user_data, url, retry_count,
                    last_error, attempts, sleeps, content, result, error, sink >>

\* driver.get raises: the outer handler turns it into UserScrapingError
SelOpenFail ==
    /\ pc = "sel_open"
    /\ error' = SeleniumError(current_page)
    /\ pc' = "failed"
    /\ UNCHANGED << authenticated, driver, scraper, use_selenium, max_retries, calls,
                    current_page, has_next_page, user_data, url, retry_count,
                    last_error, attempts, sleeps, content, log, result, sink >>

\* WebDriverWait finds a user item; content = driver.page_source
SelLocated ==
    /\ pc = "sel_loop"
    /\ has_next_page
    /\ current_page <= MaxPages
    /\ \E page \in Pages :
        /\ Len(page.items) >= 1
        /\ content' = page
    /\ log' = Append(log, Event("source", current_page, 0, FALSE))
    /\ pc' = "sel_parse"
    /\ UNCHANGED << authenticated, driver, scraper, use_selenium, max_retries, calls,
                    current_page, has_next_page, user_data, url, retry_count,
                    last_error, attempts, sleeps, result, error, sink >>

\* except TimeoutException: has_next_page = False
SelTimeout ==
    /\ pc = "sel_loop"
    /\ has_next_page
    /\ current_page <= MaxPages
    /\ has_next_page' = FALSE
    /\ log' = Append(log, Event("timeout", current_page, 0, FALSE))
    /\ UNCHANGED << authenticated, driver, scraper, use_selenium, max_retries, calls, pc,
                    current_page, user_data, url, retry_count, last_error, attempts, sleeps,
                    content, result, error, sink >>

\* except Exception: raise UserScrapingError
SelWaitError ==
    /\ pc = "sel_loop"
    /\ has_next_page
    /\ current_page <= MaxPages
    /\ error' = SeleniumError(current_page)
    /\ pc' = "failed"
    /\ UNCHANGED << authenticated, driver, scraper, use_selenium, max_retries, calls,
                    current_page, has_next_page, user_data, url, retry_count,
                    last_error, attempts, sleeps, content, log, result, sink >>

\* lines 173-174: the page source is parsed and its records are appended
SelParse ==
    /\ pc = "sel_parse"
    /\ LET r == ParseUserData(content, current_page)
       IN  /\ user_data' = user_data \o r.users
           /\ has_next_page' = r.has_next
           /\ pc' = IF r.has_next THEN "sel_next" ELSE "sel_loop"
           /\ content' = IF r.has_next THEN content ELSE NoContent
    /\ log' = Append(log, Event("parse", current_page, 0, has_next_page'))
    /\ UNCHANGED << authenticated, driver, scraper, use_selenium, max_retries, calls,
                    current_page, url, retry_count, last_error, attempts, sleeps, result,
                    error, sink >>

\* find_element("a.next-page, a.pagination-next, li.next a") raises
\* NoSuchElementException: has_next_page = False
SelNoNextElement ==
    /\ pc = "sel_next"
    /\ content.next = "absent"
    /\ has_next_page' = FALSE
    /\ content' = NoContent
    /\ pc' = "sel_loop"
    /\ UNCHANGED << authenticated, driver, scraper, use_selenium, max_retries, calls,
                    current_page, user_data, url, retry_count, last_error, attempts, sleeps,
                    log, result, error, sink >>

\* the control is displayed and enabled: click, current_page += 1
SelClick ==
    /\ pc = "sel_next"
    /\ content.next # "absent"
    /\ current_page' = current_page + 1
    /\ log' = Append(log, Event("click", current_page, 0, FALSE))
    /\ content' = NoContent
    /\ pc' = "sel_delay"
    /\ UNCHANGED << authenticated, driver, scraper, use_selenium, max_retries, calls,
                    has_next_page, user_data, url, retry_count, last_error, attempts, sleeps,
                    result, error, sink >>

\* next_button.click() raises
SelClickFail ==
    /\ pc = "sel_next"
    /\ content.next # "absent"
    /\ error' = SeleniumError(current_page)
    /\ pc' = "failed"
    /\ UNCHANGED << authenticated, driver, scraper, use_selenium, max_retries, calls,
                    current_page, has_next_page, user_data, url, retry_count,
                    last_error, attempts, sleeps, content, log, result, sink >>

\* the control is not displayed or not enabled: has_next_page = False
SelNotActionable ==
    /\ pc = "sel_next"
    /\ content.next # "absent"
    /\ has_next_page' = FALSE
    /\ content' = NoContent
    /\ pc' = "sel_loop"
    /\ UNCHANGED << authenticated, driver, scraper, use_selenium, max_retries, calls,
                    current_page, user_data, url, retry_count, last_error, attempts, sleeps,
                    log, result, error, sink >>

\* time.sleep(settings.REQUEST_DELAY) after the click
SelDelay ==
    /\ pc = "sel_delay"
    /\ log' = Append(log, Event("delay", current_page - 1, REQUEST_DELAY, FALSE))
    /\ pc' = "sel_loop"
    /\ UNCHANGED << authenticated, driver, scraper, use_selenium, max_retries, calls,
                    current_page, has_next_page, user_data, url, retry_count,
                    last_error, attempts, sleeps, content, result, error, sink >>

\* the Selenium loop ends: the collected records go to _process_user_data
SelLoopExit ==
    /\ pc = "sel_loop"
    /\ ~has_next_page
    /\ pc' = "process"
    /\ UNCHANGED << authenticated, driver, scraper, use_selenium, max_retries, calls,
                    current_page, has_next_page, user_data, url, retry_count,
                    last_error, attempts, sleeps, content, log, result, error, sink >>

(* ---------------------------- specification ---------------------------- *)

Next ==
    \/ ConstructRejected
    \/ Construct
    \/ ScrapeWithRequests
    \/ FinScrapeWithRequests
    \/ LoopEnter
    \/ LoopExit
    \/ GetOk
    \/ GetFail
    \/ Backoff
    \/ GiveUp
    \/ ParsePage
    \/ Delay
    \/ ProcessData
    \/ Save
    \/ ScrapeWithSelenium
    \/ SelOpen
    \/ SelOpenFail
    \/ SelLocated
    \/ SelTimeout
    \/ SelWaitError
    \/ SelParse
    \/ SelNoNextElement
    \/ SelClick
    \/ SelClickFail
    \/ SelNotActionable
    \/ SelDelay
    \/ SelLoopExit

Spec == Init /\ [][Next]_vars

(* ------------- _process_user_data called on its own -------------------- *)

\* the raw records handed to _process_user_data: every combination of a
\* name, an e-mail and the required fields, and a few records with payment
\* and join-date texts
RawNames == { Absent, PyNone, <<" ">>, <<" ", "a", "B">> }
RawEmails == { Absent, <<>>, <<" ", "A", "@", "b", ".", "c">> }
RawRequired == { {"id", "scrape_date"}, {"id"}, {"scrape_date"} }

RawRecord(name, email, required, paid, join_date) ==
    LET all == [id |-> <<0, 0>>, scrape_date |-> Now, name |-> name, email |-> email,
                paid |-> paid, join_date |-> join_date]
        keys == required
                \cup { f \in {"name", "email", "paid", "join_date"} : all[f] # Absent }
    IN  [f \in keys |-> all[f]]

RawRecords ==
    { RawRecord(n, e, r, Absent, Absent) :
        n \in RawNames, e \in RawEmails, r \in RawRequired }
    \cup { RawRecord(<<"a">>, <<"a">>, {"id", "scrape_date"}, <<"Y", "e", "s">>,
                     <<"01/02/2023">>),
           RawRecord(<<"a">>, Absent, {"id", "scrape_date"}, PyTrue, <<"soon">>),
           RawRecord(Absent, <<"a", "@", "b">>, {"id", "scrape_date"}, <<"N", "o">>,
                     <<"2023-05-15">>),
           RawRecord(<<"a">>, Absent, {"id", "scrape_date"}, PyFalse, Absent),
           RawRecord(<<"a">>, Absent, {"id", "scrape_date"}, <<"P", "A", "I", "D">>, Absent),
           RawRecord(<<"a">>, Absent, {"id", "scrape_date"}, <<" ", "1">>, Absent) }

NormInit ==
    /\ authenticated = TRUE
    /\ driver = FALSE
    /\ scraper = "user"
    /\ use_selenium = FALSE
    /\ max_retries = 0
    /\ pc = "process"
    /\ current_page = 0
    /\ has_next_page = FALSE
    /\ user_data \in SeqUpTo(RawRecords, MaxLen)
    /\ url = NoUrl
    /\ retry_count = 0
    /\ last_error = NoOutcome
    /\ attempts = <<>>
    /\ sleeps = <<>>
    /\ content = NoContent
    /\ log = <<>>
    /\ result = NoResult
    /\ error = NoError
    /\ sink = NoResult
    /\ calls = <<>>

NormNext == ProcessData

NormSpec == NormInit /\ [][NormNext]_vars

(* ------------------- _parse_user_data on one page ---------------------- *)

\* the payment-status texts of the user items of a page
PaymentTexts ==
    { Absent, <<"P", "a", "i", "d">>, <<" ", "P", "A", "I", "D", " ">>,
      <<"S", "u", "c", "c", "e", "s", "s">>, <<"P", "e", "n", "d", "i", "n", "g">>,
      <<"U", "n", "p", "a", "i", "d">> }

ParseElements ==
    { [name |-> <<"a">>, email |-> Absent, payment |-> t, join_date |-> Absent] :
        t \in PaymentTexts }

\* the texts of the .pagination-info element of a page
PaginationTexts ==
    { <<"1", " ", "o", "f", " ", "2">>, <<"2", " ", "o", "f", " ", "2">>,
      <<"P", "a", "g", "e", " ", "1", " ", "o", "f", " ", "3">>,
      <<"1", " ", "O", "F", " ", "2">>, <<"a", " ", "o", "f", " ", "2">>,
      <<"o", "f", " ", "2">>, <<"1", " ", "o", "f">>, <<"1", "2">>,
      <<"2", " ", "o", "f", " ", "1", " ", "o", "f", " ", "9">> }

ParsePages ==
    { [items |-> it, next |-> n, info |-> i] :
        it \in SeqUpTo(ParseElements, MaxItems), n \in NextControls,
        i \in { [kind |-> "absent", current |-> 0, total |-> 0] }
                \cup { [kind |-> "text", text |-> t] : t \in PaginationTexts } }

\* the run with requests after the fetch of page 1 returned
ParseInit ==
    /\ authenticated = TRUE
    /\ driver = FALSE
    /\ scraper = "user"
    /\ use_selenium = FALSE
    /\ max_retries = 1
    /\ pc = "parse"
    /\ current_page = 1
    /\ has_next_page = TRUE
    /\ user_data = <<>>
    /\ url = [base |-> "COURSE_URL", page |-> 1]
    /\ retry_count = 0
    /\ last_error = NoOutcome
    /\ \E page \in ParsePages :
        /\ attempts = <<Response(page)>>
        /\ content = ResponseText(Response(page))
    /\ sleeps = <<>>
    /\ log = <<Event("fetch", 1, 0, FALSE)>>
    /\ result = NoResult
    /\ error = NoError
    /\ sink = NoResult
    /\ calls = <<>>

ParseNext == ParsePage

ParseSpec == ParseInit /\ [][ParseNext]_vars

(* ------------------ the financial record, normalised ------------------- *)

\* the texts of the elements the four metric selectors match on the
\* analytics page, each possibly absent
TotalUsersTexts ==
    { Absent, <<"3">>, <<"-", "2">>, <<"N", "/", "A">>, <<"5", "0", "0">> }
PaidUsersTexts ==
    { Absent, <<"2">>, <<"7">>, <<"n", "/", "a">>, <<"3", "5", "0">> }
TotalGmvTexts ==
    { Absent, <<"$", "5", "0", ",", "0", "0", "0">>, <<"1", "0", ".", "5">>, <<"-", "5">> }
TotalProfitTexts == { Absent, <<"3">>, <<"-", "$", "5">> }

FinPage(tu, pu, gmv, profit) ==
    LET all == [total_users |-> tu, paid_users |-> pu, total_gmv |-> gmv,
                total_profit |-> profit]
    IN  [f \in { g \in DOMAIN all : all[g] # Absent } |-> all[f]]

FinPages ==
    { FinPage(tu, pu, gmv, profit) :
        tu \in TotalUsersTexts, pu \in PaidUsersTexts, gmv \in TotalGmvTexts,
        profit \in TotalProfitTexts }

\* the financial run after its fetch returned the analytics page
FinInit ==
    /\ authenticated = TRUE
    /\ driver = FALSE
    /\ scraper = "financial"
    /\ use_selenium = FALSE
    /\ max_retries = 1
    /\ pc = "fin_fetched"
    /\ current_page = 0
    /\ has_next_page = FALSE
    /\ user_data = <<>>
    /\ url = NoUrl
    /\ retry_count = 0
    /\ last_error = NoOutcome
    /\ attempts = <<>>
    /\ sleeps = <<>>
    /\ content \in FinPages
    /\ log = <<>>
    /\ result = NoResult
    /\ error = NoError
    /\ sink = NoResult
    /\ calls = <<>>

\* financial_data as _scrape_with_requests returns it to scrape()
FinancialData == ParseFinancialData(content, PyTime(0))

\* _scrape_with_requests: financial_data = self._parse_financial_data(content);
\* scrape(): processed_data = self._process_financial_data(financial_data);
\* return processed_data
FinReturn ==
    /\ pc = "fin_fetched"
    /\ scraper = "financial"
    /\ result' = [set |-> TRUE, data |-> ProcessFinancialData(FinancialData, PyTime(1))]
    /\ pc' = "returned"
    /\ UNCHANGED << authenticated, driver, scraper, use_selenium, max_retries, calls,
                    current_page, has_next_page, user_data, url, retry_count,
                    last_error, attempts, sleeps, content, log, error, sink >>

\* one normalisation call made on its own after the run
Call(fn, in, out) == [fn |-> fn, in |-> in, out |-> out]

\* _process_financial_data called a second time on the same financial_data
FinProcessAgain ==
    /\ pc = "returned"
    /\ scraper = "financial"
    /\ calls = <<>>
    /\ calls' = <<Call("_process_financial_data", <<FinancialData>>,
                       [raised |-> "none",
                        models |-> <<ProcessFinancialData(FinancialData, PyTime(2))>>])>>
    /\ UNCHANGED << authenticated, driver, scraper, use_selenium, max_retries,
                    pc, current_page, has_next_page, user_data, url, retry_count,
                    last_error, attempts, sleeps, content, log, result, error, sink >>

\* the records FinancialMetrics is built from: the financial_data of the run
\* as it is, without its derived metrics, with an id of its own, with a
\* total_users that is the float infinity, and with a conversion_rate of 50.0
WithoutDerived(d) ==
    [f \in (DOMAIN d) \ {"avg_revenue_per_user", "conversion_rate"} |-> d[f]]

ModelInputs ==
    { FinancialData,
      WithoutDerived(FinancialData),
      Put(WithoutDerived(FinancialData), "id", PyText(<<"m", "1">>)),
      Put(WithoutDerived(FinancialData), "total_users", PyInf),
      Put(FinancialData, "conversion_rate", PyFloat(5000)) }

\* FinancialMetrics.from_list(data_list)
FinFromList ==
    /\ pc = "returned"
    /\ scraper = "financial"
    /\ Len(calls) = 1
    /\ \E data_list \in SeqUpTo(ModelInputs, MaxLen) :
        /\ data_list # <<>>
        /\ calls' = Append(calls, Call("from_list", data_list, FromList(data_list, 1)))
    /\ UNCHANGED << authenticated, driver, scraper, use_selenium, max_retries,
                    pc, current_page, has_next_page, user_data, url, retry_count,
                    last_error, attempts, sleeps, content, log, result, error, sink >>

\* FinancialMetrics.from_list called a second time on the same data_list
FinFromListAgain ==
    /\ pc = "returned"
    /\ scraper = "financial"
    /\ Len(calls) = 2
    /\ calls' = Append(calls, Call("from_list", calls[2].in, FromList(calls[2].in, 2)))
    /\ UNCHANGED << authenticated, driver, scraper, use_selenium, max_retries,
                    pc, current_page, has_next_page, user_data, url, retry_count,
                    last_error, attempts, sleeps, content, log, result, error, sink >>

\* calculate_derived_metrics() on each model the first from_list returned
FinCalculate ==
    /\ pc = "returned"
    /\ scraper = "financial"
    /\ Len(calls) = 3
    /\ LET ms == calls[2].out.models
       IN  calls' = Append(calls,
                Call("calculate_derived_metrics", ms,
                     [raised |-> "none",
                      models |-> [i \in 1..Len(ms) |-> CalculateDerivedMetricsOf(ms[i])]]))
    /\ UNCHANGED << authenticated, driver, scraper, use_selenium, max_retries,
                    pc, current_page, has_next_page, user_data, url, retry_count,
                    last_error, attempts, sleeps, content, log, result, error, sink >>

FinNext == FinReturn \/ FinProcessAgain \/ FinFromList \/ FinFromListAgain \/ FinCalculate

FinSpec == FinInit /\ [][FinNext]_vars

(* -------------------- normalising the same input twice ----------------- *)

\* _process_user_data called a second time, later, on the same raw records
ProcessAgain ==
    /\ pc = "returned"
    /\ scraper = "user"
    /\ calls = <<>>
    /\ calls' = <<Call("_process_user_data", user_data,
                       [raised |-> "none",
                        models |-> ProcessUserDataAt(user_data, Later)])>>
    /\ UNCHANGED << authenticated, driver, scraper, use_selenium, max_retries,
                    pc, current_page, has_next_page, user_data, url, retry_count,
                    last_error, attempts, sleeps, content, log, result, error, sink >>

IdemInit == NormInit \/ FinInit

IdemNext == ProcessData \/ ProcessAgain \/ FinNext

IdemSpec == IdemInit /\ [][IdemNext]_vars

(* --------------------------- building a User --------------------------- *)

\* the dicts a User is built from: the keys of a user record, with and without
\* scrape_date, the e-mail well-formed, malformed or missing, and paid a bool,
\* None, a text or missing
UserInputs ==
    { RawRecord(n, e, r, p, j) :
        n \in { Absent, <<"A", "b">> },
        e \in { Absent, <<"a", "@", "b", ".", "c">>, <<"a", "@", "b">> },
        r \in { {"id", "scrape_date"}, {"id"}, {"scrape_date"} },
        p \in { Absent, PyNone, PyTrue, PyFalse, <<"Y", "e", "s">>, <<"t", "r", "u", "e">>,
                <<"1">>, <<"n", "o">> },
        j \in { Absent, <<"2023-05-15T00:00:00">> } }

\* User.from_dict(data), data being the dict held in user_data
FromDict ==
    /\ pc = "returned"
    /\ scraper = "user"
    /\ calls = <<>>
    /\ Len(user_data) = 1
    /\ calls' = <<Call("from_dict", user_data[1], User(user_data[1]))>>
    /\ UNCHANGED << authenticated, driver, scraper, use_selenium, max_retries,
                    pc, current_page, has_next_page, user_data, url, retry_count,
                    last_error, attempts, sleeps, content, log, result, error, sink >>

\* a dict of UserInputs is at hand, and a User is built from it
UserSpec ==
    /\ authenticated = TRUE
    /\ driver = FALSE
    /\ scraper = "user"
    /\ use_selenium = FALSE
    /\ max_retries = 0
    /\ pc = "returned"
    /\ current_page = 0
    /\ has_next_page = FALSE
    /\ user_data \in { <<u>> : u \in UserInputs }
    /\ url = NoUrl
    /\ retry_count = 0
    /\ last_error = NoOutcome
    /\ attempts = <<>>
    /\ sleeps = <<>>
    /\ content = NoContent
    /\ log = <<>>
    /\ result = NoResult
    /\ error = NoError
    /\ sink = NoResult
    /\ calls = <<>>
    /\ [][FromDict]_vars

(* ------------------ the two strategies on the same pages --------------- *)

\* scrape(use_selenium=False) on a scraper that owns a driver, the platform
\* serving some sequence of pages
RunRequests ==
    /\ pc = "constructed"
    /\ scraper = "user"
    /\ driver
    /\ calls = <<>>
    /\ \E pages \in SeqUpTo({ p \in Pages : \A i \in 1..Len(p.items) : p.items[i].name # Absent },
                             MaxPages) :
        /\ pages # <<>>
        /\ calls' = <<Call("_scrape_with_requests", pages, RequestsFrom(pages, 1, <<>>, 0))>>
    /\ UNCHANGED << authenticated, driver, scraper, use_selenium, max_retries,
                    pc, current_page, has_next_page, user_data, url, retry_count,
                    last_error, attempts, sleeps, content, log, result, error, sink >>

\* scrape(use_selenium=True) on the same scraper and the same pages
RunSelenium ==
    /\ pc = "constructed"
    /\ scraper = "user"
    /\ driver
    /\ Len(calls) = 1
    /\ calls' = Append(calls, Call("_scrape_with_selenium", calls[1].in,
                                   SeleniumFrom(calls[1].in, 1, <<>>, 0)))
    /\ UNCHANGED << authenticated, driver, scraper, use_selenium, max_retries,
                    pc, current_page, has_next_page, user_data, url, retry_count,
                    last_error, attempts, sleeps, content, log, result, error, sink >>

EquivSpec == Init /\ [][ConstructRejected \/ Construct \/ RunRequests \/ RunSelenium]_vars

(* ------------------- runs that go on past MaxPages --------------------- *)

\* A run that is still paginating after MaxPages pages goes on as the loop
\* does: page MaxPages + 1 is followed as page MaxPages again, the records and
\* log entries of the page it replaces being forgotten.  The loop's control
\* flow reads neither the page number nor the accumulated records.
Fold ==
    /\ pc \in {"loop", "sel_loop"}
    /\ has_next_page
    /\ current_page > MaxPages
    /\ current_page' = MaxPages
    /\ LET KeepRecord(u) == u.id[1] < MaxPages
           KeepEvent(e) == e.page < MaxPages
       IN  /\ user_data' = SelectSeq(user_data, KeepRecord)
           /\ log' = SelectSeq(log, KeepEvent)
    /\ UNCHANGED << authenticated, driver, scraper, use_selenium, max_retries, calls, pc,
                    has_next_page, url, retry_count, last_error, attempts, sleeps,
                    content, result, error, sink >>

LiveNext == Next \/ Fold

\* a single thread of control: every sleep ends and every request returns or
\* times out (REQUEST_TIMEOUT, SELENIUM_TIMEOUT), so the run always takes its
\* next step
LiveSpec == Init /\ [][LiveNext]_vars /\ WF_vars(LiveNext)

(* ------------------------ a user interrupt ----------------------------- *)

\* a faulty variant of IsException: every exception class derives from Exception
IsException_All(exc) == TRUE

\* issubclass(exc, Exception): KeyboardInterrupt derives from BaseException
IsException(exc) == exc # "KeyboardInterrupt"

\* does an except clause naming cls take exc
Catches(cls, exc) == IF cls = "Exception" THEN IsException(exc) ELSE exc = cls

\* the except clauses an exception raised by time.sleep meets on its way to
\* main, innermost first: _scrape_with_requests or the two of
\* _scrape_with_selenium, scrape(), and the two of main.scrape_user_data or
\* main.scrape_financial_data.  The sleep of _fetch_with_retry is inside the
\* except block of its own try, whose clauses no longer apply.  (The clauses
\* naming NoSuchElementException and TimeoutException take those classes only.)
HandlersAt(at, s) ==
    (IF at = "sel_delay" THEN <<"Exception", "Exception">> ELSE <<"Exception">>)
        \o <<"Exception", ErrType(s), "Exception">>

\* the exception that reaches main: every clause on the way that takes the
\* exception raises the scraper's error, or the exception again, in its place
RECURSIVE Propagate(_, _, _)
Propagate(exc, handlers, s) ==
    IF handlers = <<>>
    THEN exc
    ELSE Propagate(IF Catches(Head(handlers), exc) /\ Head(handlers) = "Exception"
                   THEN ErrType(s) ELSE exc,
                   Tail(handlers), s)

\* main: except KeyboardInterrupt: return 130; except Exception: return 1;
\* -1 stands for an exception that leaves main
MainReturn(exc) ==
    IF Catches("KeyboardInterrupt", exc) THEN 130
    ELSE IF Catches("Exception", exc) THEN 1
    ELSE -1

\* SIGINT arrives while the run is in time.sleep: the sleep raises
\* KeyboardInterrupt, which travels up to main
Interrupt ==
    /\ pc \in {"backoff", "delay", "sel_delay"}
    /\ LET exc == Propagate("KeyboardInterrupt", HandlersAt(pc, scraper), scraper)
       IN  /\ error' = [NoError EXCEPT !.type = exc, !.at = "interrupt",
                                       !.page = current_page]
           /\ pc' = IF MainReturn(exc) = 130 THEN "cancelled" ELSE "failed"
    /\ UNCHANGED << authenticated, driver, scraper, use_selenium, max_retries, calls,
                    current_page, has_next_page, user_data, url, retry_count,
                    last_error, attempts, sleeps, content, log, result, sink >>

\* the value main returns once the run has ended
ExitCode ==
    CASE pc = "done" -> 0
      [] pc = "failed" -> 1
      [] pc = "cancelled" -> 130
      [] OTHER -> -1

CancelNext == Next \/ Interrupt

CancelSpec == Init /\ [][CancelNext]_vars

(* ------------------------------- main() -------------------------------- *)

\* settings.TAKE_SCREENSHOT_ON_ERROR
TAKE_SCREENSHOT_ON_ERROR == TRUE

\* main() at its try statement: no authenticator yet
MainInit ==
    /\ authenticated = FALSE
    /\ driver = FALSE
    /\ scraper \in {"user", "financial"}
    /\ use_selenium \in BOOLEAN
    /\ scraper = "financial" => ~use_selenium
    /\ max_retries \in (IF use_selenium THEN {MaxRetriesBound} ELSE 0..MaxRetriesBound)
    /\ pc = "main"
    /\ current_page = 0
    /\ has_next_page = FALSE
    /\ user_data = <<>>
    /\ url = NoUrl
    /\ retry_count = 0
    /\ last_error = NoOutcome
    /\ attempts = <<>>
    /\ sleeps = <<>>
    /\ content = NoContent
    /\ log = <<>>
    /\ result = NoResult
    /\ error = NoError
    /\ sink = NoResult
    /\ calls = <<>>

\* authenticator = authenticate(args, logger) returns: the authenticator owns a
\* driver when Selenium was asked for.  authenticate() returns after
\* validate_session() or login(); whether the authenticator then reports
\* authenticated is left open.
Authenticate ==
    /\ pc = "main"
    /\ authenticated' \in BOOLEAN
    /\ driver' = use_selenium
    /\ pc' = "start"
    /\ UNCHANGED << scraper, use_selenium, max_retries, calls, current_page,
                    has_next_page, user_data, url, retry_count, last_error, attempts,
                    sleeps, content, log, result, error, sink >>

\* authenticate(args, logger) raises: the constructor of Authenticator, the
\* reading of the credentials or login() failed, with or without a driver
\* started by then.  main's name authenticator is not bound.
AuthenticateRaises ==
    /\ pc = "main"
    /\ driver' \in (IF use_selenium THEN BOOLEAN ELSE {FALSE})
    /\ error' = [NoError EXCEPT !.type = "AuthenticationError", !.at = "authenticate"]
    /\ pc' = "failed"
    /\ UNCHANGED << authenticated, scraper, use_selenium, max_retries, calls,
                    current_page, has_next_page, user_data, url, retry_count,
                    last_error, attempts, sleeps, content, log, result, sink >>

\* the end of main's try block, lines 420-428: the driver is quit and main
\* returns 0
MainSuccess ==
    /\ pc = "done" \/ (pc = "returned" /\ scraper = "financial")
    /\ log' = IF driver THEN Append(log, Event("quit", 0, 0, FALSE)) ELSE log
    /\ pc' = "main_0"
    /\ UNCHANGED << authenticated, driver, scraper, use_selenium, max_retries, calls,
                    current_page, has_next_page, user_data, url, retry_count,
                    last_error, attempts, sleeps, content, result, error, sink >>

\* except KeyboardInterrupt, lines 430-432: main returns 130
MainInterrupted ==
    /\ pc = "cancelled"
    /\ pc' = "main_130"
    /\ UNCHANGED << authenticated, driver, scraper, use_selenium, max_retries, calls,
                    current_page, has_next_page, user_data, url, retry_count,
                    last_error, attempts, sleeps, content, log, result, error, sink >>

\* except Exception, lines 433-454.  Line 437 reads the name authenticator
\* when TAKE_SCREENSHOT_ON_ERROR is set: unbound, it raises UnboundLocalError
\* inside the handler, which leaves main.  Otherwise the screenshot is tried,
\* the driver of a bound authenticator is quit, and main returns 1.
MainExcept ==
    /\ pc = "failed"
    /\ LET bound == error.at # "authenticate"
       IN  IF TAKE_SCREENSHOT_ON_ERROR /\ ~bound
           THEN /\ error' = [error EXCEPT !.type = "UnboundLocalError"]
                /\ pc' = "main_raised"
                /\ log' = log
           ELSE /\ error' = error
                /\ pc' = "main_1"
                /\ log' = IF bound /\ driver
                          THEN Append(log, Event("quit", 0, 0, FALSE))
                          ELSE log
    /\ UNCHANGED << authenticated, driver, scraper, use_selenium, max_retries, calls,
                    current_page, has_next_page, user_data, url, retry_count,
                    last_error, attempts, sleeps, content, result, sink >>

MainSpec ==
    MainInit /\ [][CancelNext \/ FinReturn \/ Authenticate \/ AuthenticateRaises
                   \/ MainSuccess \/ MainInterrupted \/ MainExcept]_vars

(* ------------------------------- claims -------------------------------- *)

RequestsRun == scraper = "user" /\ ~(use_selenium /\ driver)
SeleniumRun == scraper = "user" /\ use_selenium /\ driver

\* scrape() is past its pagination loop
Finished == pc \in {"process", "returned", "done"}

Count(ev) == Cardinality({ k \in 1..Len(log) : log[k].ev = ev })

AllFailed(as) == \A i \in 1..Len(as) : ~Succeeded(as[i])

\* the classification of section 4.1: a network-level failure, or an HTTP
\* status of the retryable set
Transient(o) ==
    \/ o.exc \in {"ConnectionError", "Timeout"}
    \/ o.exc = "HTTPError" /\ o.status \in RETRY_STATUS_FORCELIST

\* C1: when the first f < max_retries attempts of _fetch_with_retry fail with a
\* request error and attempt f+1 succeeds, the call returns the body of that
\* response after exactly f+1 session.get calls; it does not give up while
\* fewer than max_retries attempts have failed.
C1_RetryReturnsSuccess ==
    /\ pc \in {"parse", "fin_fetched"} =>
        LET n == Len(attempts)
        IN  /\ n >= 1
            /\ n - 1 < max_retries
            /\ Succeeded(attempts[n])
            /\ AllFailed(SubSeq(attempts, 1, n - 1))
            /\ retry_count = n - 1
            /\ content = attempts[n].body
    /\ error.at = "fetch" => Len(attempts) >= max_retries

C1_Witness ==
    /\ pc \in {"parse", "fin_fetched"}
    /\ Len(attempts) >= 2
    /\ Len(attempts) = max_retries

\* C2: when each of the first max_retries >= 1 attempts fails, no further
\* session.get is issued and _fetch_with_retry can only end in the scraper's
\* error, which reports the url, the last error and max_retries attempts;
\* nothing is returned or saved.
C2_ExhaustedRaises ==
    /\ Len(attempts) <= max_retries
    /\ (max_retries >= 1 /\ Len(attempts) = max_retries /\ AllFailed(attempts)) =>
        /\ pc \in {"backoff", "retry", "failed"}
        /\ ~result.set
        /\ ~sink.set
        /\ pc = "failed" =>
            /\ error.type = ErrType(scraper)
            /\ error.at = "fetch"
            /\ error.url = url
            /\ error.attempts = Len(attempts)
            /\ error.last_error = [exc |-> attempts[Len(attempts)].exc,
                                   status |-> attempts[Len(attempts)].status]

C2_Witness ==
    /\ pc = "failed"
    /\ error.at = "fetch"
    /\ max_retries >= 2
    /\ Len(attempts) = max_retries

\* C3: a failure that is not transient (a 4xx status other than 429, a
\* malformed URL) ends _fetch_with_retry at once: it is the last attempt and
\* no backoff wait or further attempt follows it.
C3_NonTransientNotRetried ==
    \A i \in 1..Len(attempts) :
        (~Succeeded(attempts[i]) /\ ~Transient(attempts[i])) =>
            /\ i = Len(attempts)
            /\ pc \notin {"backoff", "retry"}

\* C4: when the fetch of a page fails terminally during user pagination,
\* scrape() raises UserScrapingError: nothing is returned and nothing reaches
\* the sink, whatever was accumulated from the earlier pages.
C4_FetchFailureNoPartialOutput ==
    (scraper = "user" /\ error.at = "fetch") =>
        /\ pc = "failed"
        /\ error.type = "UserScrapingError"
        /\ ~result.set
        /\ ~sink.set

C4_Witness ==
    /\ scraper = "user"
    /\ pc = "failed"
    /\ error.at = "fetch"
    /\ error.page = 2
    /\ Len(user_data) >= 1

\* (page, item) of a before (page, item) of b
Before(a, b) == a[1] < b[1] \/ (a[1] = b[1] /\ a[2] < b[2])

\* C5: the sequence returned by a successful pagination lists the accepted
\* records in page-then-item order: a record of an earlier page precedes one of
\* a later page, records of one page keep their order on the page, and every
\* accepted record is listed.
C5_PageThenItemOrder ==
    result.set =>
        /\ \A i, j \in 1..Len(result.data) :
            i < j => Before(result.data[i].id, result.data[j].id)
        /\ { result.data[i].id : i \in 1..Len(result.data) }
            = { user_data[i].id : i \in { k \in 1..Len(user_data) : Accepted(user_data[k]) } }

C5_Witness ==
    /\ result.set
    /\ Len(result.data) < Len(user_data)
    /\ \E i, j \in 1..Len(result.data) :
        i < j /\ result.data[i].id[1] = result.data[j].id[1]
    /\ \E i, j \in 1..Len(result.data) : result.data[i].id[1] < result.data[j].id[1]

\* C6 as stated: a successful run over N >= 1 pages has exactly N-1
\* inter-page delays, none of them after the last page.
C6_ExactlyNMinusOneDelays ==
    (scraper = "user" /\ Finished /\ Count("parse") >= 1) =>
        Count("delay") = Count("parse") - 1

\* C6, amended: one politeness delay follows each page that leads to a next
\* page (the parse with requests, the click with Selenium) and precedes the
\* read of that next page; no page after the first is read without it and
\* none precedes the first page.  A finished run that parsed N >= 1 pages has
\* N-1 delays, except a Selenium run whose wait after a click timed out: it
\* has N, the last one after the last parsed page.
C6_DelaysBetweenPages ==
    scraper = "user" =>
        /\ \A k \in 1..Len(log) :
            log[k].ev = "delay" =>
                /\ k > 1
                /\ log[k - 1].ev \in {"parse", "click"}
                /\ log[k - 1].page = log[k].page
                /\ k < Len(log) =>
                    /\ log[k + 1].ev \in {"fetch", "source", "timeout"}
                    /\ log[k + 1].page = log[k].page + 1
        /\ \A k \in 1..Len(log) :
            (log[k].ev \in {"fetch", "source", "timeout"} /\ log[k].page > 1) =>
                k > 1 /\ log[k - 1].ev = "delay"
        /\ Finished => Count("delay") = current_page - 1
        /\ (Finished /\ Count("timeout") = 0) =>
            /\ Count("delay") = Count("parse") - 1
            /\ log[Len(log)].ev = "parse"
        /\ (Finished /\ Count("timeout") > 0 /\ Count("parse") >= 1) =>
            /\ Count("delay") = Count("parse")
            /\ log[Len(log)].ev = "timeout"

C6_Witness ==
    /\ pc = "done"
    /\ RequestsRun
    /\ Count("parse") = 2
    /\ Count("delay") = 1

\* the fetches of the log, in order
Fetches == LET IsFetch(e) == e.ev = "fetch" IN SelectSeq(log, IsFetch)

\* C7: pagination with requests starts at page 1 with an empty accumulator,
\* fetches pages 1, 2, 3, ... in turn, each once, and fetches nothing after
\* the first page whose parse signals no next page.
C7_ConsecutivePagesUntilLast ==
    RequestsRun =>
        /\ (pc = "loop" /\ log = <<>>) => (current_page = 1 /\ user_data = <<>>)
        /\ \A k \in 1..Len(Fetches) : Fetches[k].page = k
        /\ \A k \in 1..Len(log) :
            (log[k].ev = "parse" /\ ~log[k].more) => k = Len(log)
        /\ pc \in {"retry", "backoff"} => url.page = Len(Fetches) + 1

C7_Witness ==
    /\ RequestsRun
    /\ pc = "done"
    /\ Len(Fetches) = 2

\* C8: every pagination run ends: whatever the fetcher and the pages do, the
\* collection loop eventually reaches Done or Failed.
C8_PaginationTerminates == <>(scraper # "user" \/ pc \in {"done", "failed"})

\* C9: a scraper built on an authenticator that is not authenticated raises
\* its error in the constructor: no request is ever issued and the run never
\* gets past construction.
C9_UnauthenticatedNeverFetches ==
    ~authenticated =>
        /\ pc \in {"start", "failed"}
        /\ log = <<>>
        /\ attempts = <<>>
        /\ pc = "failed" => (error.type = ErrType(scraper) /\ error.at = "init")

C9_Witness == ~authenticated /\ pc = "failed" /\ scraper = "financial"

\* a field of a raw record holds a non-empty value
HasNonEmpty(u, f) == f \in DOMAIN u /\ Truthy(u[f])

\* a field of a raw record is text that is not blank
HasNonBlankText(u, f) == f \in DOMAIN u /\ IsStr(u[f]) /\ StrStrip(u[f]) # <<>>

LacksRequired(u) == ~({"id", "scrape_date"} \subseteq DOMAIN u)

NotText(u, f) == f \in DOMAIN u /\ ~IsStr(u[f])

Dropped(data, D(_)) == { i \in 1..Len(data) : D(data[i]) }

\* C10 as stated: the records dropped are exactly those with neither a
\* non-empty name nor a non-empty email, or without id or scrape_date.
DroppedAsStated(u) ==
    \/ ~(HasNonEmpty(u, "name") \/ HasNonEmpty(u, "email"))
    \/ LacksRequired(u)

C10_DropsExactlyUnidentified ==
    pc = "returned" =>
        Len(result.data) = Len(user_data) - Cardinality(Dropped(user_data, DroppedAsStated))

\* C10, amended: _process_user_data drops exactly the raw records whose name
\* and email are each absent or blank once stripped, or that lack id or
\* scrape_date, or whose name or email is present but is not text; every other
\* record is accepted, cleaned, in its place.
DroppedAmended(u) ==
    \/ ~(HasNonBlankText(u, "name") \/ HasNonBlankText(u, "email"))
    \/ LacksRequired(u)
    \/ NotText(u, "name")
    \/ NotText(u, "email")

C10_DropsBlankOrMalformed ==
    pc = "returned" =>
        LET kept == LET Keep(u) == ~DroppedAmended(u) IN SelectSeq(user_data, Keep)
        IN  /\ Len(result.data) =
                Len(user_data) - Cardinality(Dropped(user_data, DroppedAmended))
            /\ result.data = [i \in 1..Len(kept) |-> CleanUser(kept[i])]

C10_Witness ==
    /\ pc = "returned"
    /\ Len(user_data) = 2
    /\ Len(result.data) = 1
    /\ "name" \in DOMAIN user_data[1]
    /\ user_data[1]["name"] = <<" ">>
    /\ ~LacksRequired(user_data[1])

\* the items of a data_list that FinancialMetrics accepts, in order
ValidItems(data_list) ==
    LET Ok(d) == BaseModelInit(d, 0, PyTime(0)).raised = "none"
    IN  SelectSeq(data_list, Ok)

\* C11: a record that fails validation or raises while it is processed is
\* skipped and never ends the pass: from_list always returns, and returns one
\* model for each valid record of its list, in the order of the records.
C11_BadRecordNeverAborts ==
    \A k \in 1..Len(calls) :
        calls[k].fn = "from_list" =>
            /\ calls[k].out.raised = "none"
            /\ Len(calls[k].out.models) = Len(ValidItems(calls[k].in))
            /\ \A i \in 1..Len(calls[k].out.models) :
                WithoutDerived(calls[k].out.models[i]).total_gmv
                    = FinValidate(ValidItems(calls[k].in)[i]).data.total_gmv

\* C12: _parse_user_data gives one raw record for each user item of the page,
\* in document order, and a record's paid is true exactly when the trimmed
\* payment-status text of its item is, whatever its case, "paid" or "success".
C12_PaidIffPaidOrSuccess ==
    [][pc = "parse" =>
        LET r == SubSeq(user_data', Len(user_data) + 1, Len(user_data'))
        IN  /\ Len(r) = Len(content.items)
            /\ \A i \in 1..Len(r) :
                /\ r[i].id = <<current_page, i>>
                /\ ("paid" \in DOMAIN r[i] /\ r[i]["paid"] = PyTrue)
                    <=> /\ content.items[i].payment # Absent
                        /\ StrLower(StrStrip(content.items[i].payment)) \in {Paid, Success}
      ]_vars

\* C13: in the records _process_user_data returns, a paid value that was a
\* string has become True when its lower-cased form is "true", "yes", "1",
\* "paid" or "success" and False for every other string; a paid value that was
\* a boolean is unchanged.
C13_PaidCoercion ==
    (scraper = "user" /\ pc = "returned") =>
        LET kept == SelectSeq(user_data, Accepted)
        IN  /\ Len(result.data) = Len(kept)
            /\ \A i \in 1..Len(kept) :
                "paid" \in DOMAIN kept[i] =>
                    LET before == kept[i]["paid"]
                        after  == result.data[i]["paid"]
                    IN  /\ IsStr(before) =>
                            /\ after \in {PyTrue, PyFalse}
                            /\ after = PyTrue <=>
                                StrLower(before) \in
                                    { <<"t", "r", "u", "e">>, <<"y", "e", "s">>, <<"1">>,
                                      <<"p", "a", "i", "d">>,
                                      <<"s", "u", "c", "c", "e", "s", "s">> }
                        /\ before \in {PyTrue, PyFalse} => after = before

\* a returned pass in which "Yes" became True and " 1" became False
C13_Witness ==
    /\ scraper = "user"
    /\ pc = "returned"
    /\ Len(user_data) = 2
    /\ Len(result.data) = 2
    /\ "paid" \in DOMAIN user_data[1]
    /\ "paid" \in DOMAIN user_data[2]
    /\ user_data[1]["paid"] = <<"Y", "e", "s">>
    /\ result.data[1]["paid"] = PyTrue
    /\ user_data[2]["paid"] = <<" ", "1">>
    /\ result.data[2]["paid"] = PyFalse

\* h hundredths is a / b rounded to the nearest hundredth, a and b being whole
\* numbers of hundredths and of units
Nearest(h, a, b) ==
    LET diff == h * b - a
    IN  2 * (IF diff >= 0 THEN diff ELSE 0 - diff) <= b

\* the derived metrics of record d are the ones its base values give
DerivedAsStated(d) ==
    LET total == d["total_users"].v
        paid == d["paid_users"].v
        gmv == d["total_gmv"].v
        avg == d["avg_revenue_per_user"]
        rate == d["conversion_rate"]
    IN  /\ avg.t = "float"
        /\ rate.t = "float"
        /\ IF paid = 0 THEN avg.v = 0 ELSE Nearest(avg.v, gmv, paid)
        /\ IF total = 0 THEN rate.v = 0 ELSE Nearest(rate.v, 10000 * paid, total)

\* the base values of record d are numbers and the two counts are not negative
BaseValuesValid(d) ==
    /\ IsIntValue(d["total_users"]) /\ d["total_users"].v >= 0
    /\ IsIntValue(d["paid_users"]) /\ d["paid_users"].v >= 0
    /\ d["total_gmv"].t = "float"

\* C14: for base values that are numbers with counts that are not negative,
\* the derived metrics of the record scrape() returns, and of a
\* FinancialMetrics object after calculate_derived_metrics whatever derived
\* values it held before, are avg_revenue_per_user = total_gmv / paid_users
\* rounded to 2 decimals (0.0 when paid_users is 0) and conversion_rate =
\* 100 * paid_users / total_users rounded to 2 decimals (0.0 when total_users
\* is 0).
C14_DerivedMetricsRecomputed ==
    /\ (scraper = "financial" /\ result.set /\ BaseValuesValid(result.data))
            => DerivedAsStated(result.data)
    /\ \A k \in 1..Len(calls) :
        calls[k].fn = "calculate_derived_metrics" =>
            /\ Len(calls[k].out.models) = Len(calls[k].in)
            /\ \A i \in 1..Len(calls[k].in) :
                LET before == calls[k].in[i]
                    after == calls[k].out.models[i]
                IN  /\ \A f \in {"total_users", "paid_users", "total_gmv"} :
                        after[f] = before[f]
                    /\ BaseValuesValid(before) => DerivedAsStated(after)

\* 500 users, 350 paid and a GMV of 50000 gave 142.86 and 70.0 in the record
\* scrape() returned, and an object that held a conversion_rate of 50.0 holds
\* 70.0 after calculate_derived_metrics
C14_Witness ==
    /\ scraper = "financial"
    /\ result.set
    /\ result.data["total_users"] = PyInt(500)
    /\ result.data["paid_users"] = PyInt(350)
    /\ result.data["total_gmv"] = PyFloat(5000000)
    /\ result.data["avg_revenue_per_user"] = PyFloat(14286)
    /\ result.data["conversion_rate"] = PyFloat(7000)
    /\ Len(calls) = 4
    /\ calls[4].fn = "calculate_derived_metrics"
    /\ Len(calls[4].in) = 1
    /\ "conversion_rate" \in DOMAIN calls[4].in[1]
    /\ calls[4].in[1]["conversion_rate"] = PyFloat(5000)
    /\ calls[4].out.models[1]["conversion_rate"] = PyFloat(7000)
    /\ calls[4].out.models[1]["avg_revenue_per_user"] = PyFloat(14286)

\* the numeric fields of record d hold numbers, and its total_users,
\* paid_users and total_gmv are not negative
NumbersValid(d) ==
    /\ \A f \in DOMAIN d :
        /\ f \in FinIntFields => IsIntValue(d[f])
        /\ f \in FinFloatFields => IsFloatValue(d[f])
    /\ \A f \in {"total_users", "paid_users", "total_gmv"} :
        f \in DOMAIN d => d[f].v >= 0

\* C15: a financial record with a numeric field that cannot be coerced to a
\* number, with a negative total_users, paid_users or total_gmv, or with a
\* supplied conversion_rate outside [0, 100] is rejected and never emitted:
\* neither scrape() returns such a record nor from_list builds a model of one.
C15_InvalidRecordRejected ==
    /\ (scraper = "financial" /\ result.set) => NumbersValid(result.data)
    /\ \A k \in 1..Len(calls) :
        calls[k].fn = "from_list" =>
            \A i \in 1..Len(calls[k].out.models) :
                LET m == calls[k].out.models[i]
                IN  /\ NumbersValid(m)
                    /\ "conversion_rate" \in DOMAIN m =>
                        (m["conversion_rate"].v >= 0 /\ m["conversion_rate"].v <= 10000)

\* the conversion_rate of record d lies within [0, 100]
RateInRange(d) ==
    /\ d["conversion_rate"].t = "float"
    /\ d["conversion_rate"].v >= 0
    /\ d["conversion_rate"].v <= 10000

\* C16: for total_users and paid_users that are not negative, the record
\* scrape() returns, and a FinancialMetrics object after
\* calculate_derived_metrics, has a conversion_rate within [0, 100].
C16_ConversionRateInRange ==
    /\ (scraper = "financial" /\ result.set /\ BaseValuesValid(result.data))
            => RateInRange(result.data)
    /\ \A k \in 1..Len(calls) :
        calls[k].fn = "calculate_derived_metrics" =>
            \A i \in 1..Len(calls[k].out.models) :
                BaseValuesValid(calls[k].out.models[i])
                    => RateInRange(calls[k].out.models[i])

\* records a and b have the same fields and agree on all of them but those of
\* except
SameBut(a, b, except) ==
    /\ DOMAIN a = DOMAIN b
    /\ \A f \in (DOMAIN a) \ except : a[f] = b[f]

\* C17: normalising the same raw input a second time gives the same records
\* with the same field values, the id and the timestamps generated by the call
\* aside: the records of _process_user_data differ in processed_timestamp
\* only, those of _process_financial_data in processed_at only, and two models built from the same record differ in a
\* generated id and created_at only; an id the raw record supplies is kept by
\* both runs.
C17_NormaliseTwiceSame ==
    \A k \in 1..Len(calls) :
        /\ calls[k].fn = "_process_user_data" =>
            /\ Len(calls[k].out.models) = Len(result.data)
            /\ \A i \in 1..Len(result.data) :
                /\ SameBut(result.data[i], calls[k].out.models[i], {"processed_timestamp"})
                /\ result.data[i]["id"] = SelectSeq(calls[k].in, Accepted)[i]["id"]
        /\ calls[k].fn = "_process_financial_data" =>
            SameBut(result.data, calls[k].out.models[1], {"processed_at"})
        /\ (calls[k].fn = "from_list" /\ k > 2) =>
            LET first == calls[k - 1].out
                second == calls[k].out
                given == ValidItems(calls[k].in)
            IN  /\ calls[k - 1].in = calls[k].in
                /\ first.raised = second.raised
                /\ Len(first.models) = Len(second.models)
                /\ \A i \in 1..Len(first.models) :
                    /\ SameBut(first.models[i], second.models[i], {"id", "created_at"})
                    /\ "id" \in DOMAIN given[i] =>
                        /\ first.models[i]["id"] = given[i]["id"]
                        /\ second.models[i]["id"] = given[i]["id"]

\* the metrics were processed twice at different times, and two models were
\* built twice from a record with an id of its own and one without
C17_Witness ==
    /\ Len(calls) >= 3
    /\ calls[1].fn = "_process_financial_data"
    /\ calls[1].out.models[1]["processed_at"] # result.data["processed_at"]
    /\ calls[3].fn = "from_list"
    /\ Len(calls[3].in) = 2
    /\ Len(calls[3].out.models) = 2
    /\ "id" \in DOMAIN calls[3].in[1]
    /\ calls[3].out.models[1]["id"] = PyText(<<"m", "1">>)
    /\ calls[2].out.models[1]["id"] = PyText(<<"m", "1">>)
    /\ "id" \notin DOMAIN calls[3].in[2]
    /\ calls[3].out.models[2]["id"] # calls[2].out.models[2]["id"]

\* C18: a user interrupt that arrives during a backoff sleep or a delay
\* between pages ends the wait and the run with main returning 130: the step
\* counts no failed attempt, nothing is fetched, retried or returned after it,
\* and the run does not end as a scraping failure (exit code 1).
C18_InterruptCancelsRun ==
    [][ /\ pc # "cancelled"
        /\ error'.at = "interrupt" =>
            /\ pc \in {"backoff", "delay", "sel_delay"}
            /\ pc' = "cancelled"
            /\ ExitCode' = 130
            /\ error'.type = "KeyboardInterrupt"
            /\ retry_count' = retry_count
            /\ attempts' = attempts
            /\ sleeps' = sleeps
            /\ log' = log
            /\ ~result'.set
      ]_vars

\* an interrupt arrived during the backoff sleep after a first failed attempt
C18_Witness ==
    /\ pc = "cancelled"
    /\ error.at = "interrupt"
    /\ retry_count = 1
    /\ Len(attempts) = 1
    /\ sleeps = <<>>
    /\ ExitCode = 130

\* the name or e-mail of a returned record, Absent when the record has none
FieldOf(u, f) == IF f \in DOMAIN u THEN u[f] ELSE Absent

\* C19: the records scrape() returns are deduplicated: no two of them have
\* the same name and the same e-mail.
C19_ReturnedRecordsDistinct ==
    (scraper = "user" /\ result.set) =>
        \A i, j \in 1..Len(result.data) :
            i < j =>
                \/ FieldOf(result.data[i], "name") # FieldOf(result.data[j], "name")
                \/ FieldOf(result.data[i], "email") # FieldOf(result.data[j], "email")

\* C20: the k-th backoff wait of a _fetch_with_retry call, the one that follows
\* its k-th failed attempt, lasts base^k seconds, base being the configured
\* backoff base (settings.RETRY_BACKOFF_FACTOR).
C20_BackoffIsConfiguredBase ==
    \A k \in 1..Len(sleeps) :
        sleeps[k] * RETRY_BACKOFF_FACTOR.den ^ k = RETRY_BACKOFF_FACTOR.num ^ k

\* the pagination-info texts that read "current of total" with two integers,
\* and the two integers
ReadsAs ==
    << [text |-> <<"1", " ", "o", "f", " ", "2">>, current |-> 1, total |-> 2],
       [text |-> <<"2", " ", "o", "f", " ", "2">>, current |-> 2, total |-> 2],
       [text |-> <<"P", "a", "g", "e", " ", "1", " ", "o", "f", " ", "3">>,
        current |-> 1, total |-> 3],
       [text |-> <<"2", " ", "o", "f", " ", "1", " ", "o", "f", " ", "9">>,
        current |-> 2, total |-> 1] >>

\* C21: when the pagination-info text of the parsed page reads "current of
\* total" with two integers, has_next_page becomes current < total; when the
\* element is absent or its text does not read so, has_next_page becomes true
\* exactly when a next control that is not disabled is on the page.
C21_NextPageSignal ==
    [][pc = "parse" =>
        LET reads == { k \in 1..Len(ReadsAs) :
                        /\ content.info.kind = "text"
                        /\ content.info.text = ReadsAs[k].text }
        IN  /\ \A k \in reads : has_next_page' = (ReadsAs[k].current < ReadsAs[k].total)
            /\ (content.info.kind \in {"absent", "text"} /\ reads = {})
                    => has_next_page' = (content.next = "link")
      ]_vars

\* a page whose text reads "2 of 2" carries a next link and is parsed as the
\* last page, and the run has parsed such a page
C21_Witness ==
    /\ pc = "loop"
    /\ ~has_next_page
    /\ Len(log) = 2
    /\ log[2].ev = "parse"
    /\ ~log[2].more
    /\ \E page \in ParsePages :
        /\ page.info.kind = "text"
        /\ page.info.text = <<"2", " ", "o", "f", " ", "2">>
        /\ page.next = "link"
        /\ ~CheckForNextPage(page)
        /\ Len(user_data) = Len(page.items)

\* both strategies can navigate the pages: every page shows user items, and a
\* page that signals a next page is not the last one and carries a next link
Navigable(pages) ==
    \A k \in 1..Len(pages) :
        /\ Len(pages[k].items) >= 1
        /\ CheckForNextPage(pages[k]) => (k < Len(pages) /\ pages[k].next = "link")

C23_NormalizedBeforeNextFetch ==
    (scraper = "user" /\ pc = "retry" /\ url.page > 1)
        => \A i \in DOMAIN user_data : "processed_timestamp" \in DOMAIN user_data[i]


\* what C24 expects of the join dates of the model: the ISO form of the first
\* format that matches, day-first for 01/02/2023, and the text itself when no
\* format matches
JoinDateExpected(text) ==
    CASE text = <<"2023-05-15">> -> <<"2023-05-15T00:00:00">>
      [] text = <<"01/02/2023">> -> <<"2023-02-01T00:00:00">>
      [] OTHER -> text

HasJoinDate(user) == "join_date" \in DOMAIN user

\* C24: a record whose join_date matches no date format is still accepted, with
\* the join_date text left as it was; a join_date that matches gets the ISO
\* form of the first matching format, so 01/02/2023 is read day-first.  (Every
\* record with a join_date explored here is valid otherwise.)
C24_JoinDateFirstFormatOrKept ==
    pc = "returned"
        => LET given == SelectSeq(user_data, HasJoinDate)
               kept == SelectSeq(result.data, HasJoinDate)
           IN  /\ Len(kept) = Len(given)
               /\ \A i \in DOMAIN given :
                    kept[i]["join_date"] = JoinDateExpected(given[i]["join_date"])

C24_Witness ==
    /\ pc = "returned"
    /\ Len(user_data) = 2
    /\ Len(result.data) = 2
    /\ \A i \in 1..2 : HasJoinDate(user_data[i]) /\ HasJoinDate(result.data[i])
    /\ user_data[1]["join_date"] = <<"soon">>
    /\ result.data[1]["join_date"] = <<"soon">>
    /\ user_data[2]["join_date"] = <<"01/02/2023">>
    /\ result.data[2]["join_date"] = <<"2023-02-01T00:00:00">>


\* C25: building a User from a dict whose paid is a text (the dict having its
\* required fields and no malformed e-mail) gives a User whose paid is the
\* boolean the text stands for: true for "true", "yes" and "1" in any letter
\* case, false for any other text; the dict is not rejected.
C25_StringPaidConverted ==
    \A k \in DOMAIN calls :
        LET data == calls[k].in
            out == calls[k].out
        IN  ( /\ calls[k].fn = "from_dict"
              /\ {"scrape_date", "paid"} \subseteq DOMAIN data
              /\ data["paid"] \notin {PyNone, PyTrue, PyFalse}
              /\ "email" \in DOMAIN data => data["email"] = <<"a", "@", "b", ".", "c">> )
            => /\ out.raised = "none"
               /\ out.data["paid"] =
                    IF StrLower(data["paid"]) \in { <<"t", "r", "u", "e">>,
                                                   <<"y", "e", "s">>, <<"1">> }
                    THEN PyTrue ELSE PyFalse


\* C26: main() always returns an exit code and lets no exception escape: 0 when
\* the selected scrape succeeded, 130 on a user interrupt, 1 on any other
\* failure, a failure raised by authenticate() included.
C26_MainReturnsExitCode ==
    /\ pc # "main_raised"
    /\ pc = "main_0" => error.type = "none"
    /\ pc = "main_130" => error.type = "KeyboardInterrupt"
    /\ pc = "main_1" => error.type \notin {"none", "KeyboardInterrupt"}


\* C30: on every path by which main() returns, a Selenium driver that was
\* created for the run has been quit before the return.
C30_DriverQuitBeforeReturn ==
    (pc \in {"main_0", "main_1", "main_130"} /\ driver)
        => \E k \in DOMAIN log : log[k].ev = "quit"


\* C27: currency coercion keeps the sign of the total profit: a profit text
\* that denotes a negative amount ("-$5") gives a negative total_profit of that
\* amount, a text that denotes a non-negative amount ("3") that amount.
C27_ProfitSignPreserved ==
    (scraper = "financial" /\ result.set /\ "total_profit" \in DOMAIN content)
        => result.data["total_profit"] =
             CASE content["total_profit"] = <<"3">> -> PyFloat(300)
               [] content["total_profit"] = <<"-", "$", "5">> -> PyFloat(-500)


\* the failed attempts of the _fetch_with_retry call under way
Failed == { i \in 1..Len(attempts) : ~Succeeded(attempts[i]) }

\* C28: in _fetch_with_retry every failed attempt, the last one included, is
\* followed by a backoff wait of 2^k seconds, k being the failures so far,
\* before anything else happens: right after a failure one wait is due and
\* otherwise there are as many waits as failures; the error of exhausted
\* retries is raised after exactly max_retries waits, and a success on attempt
\* f+1 comes after exactly f waits.
C28_SleepAfterEveryFailure ==
    /\ \A k \in 1..Len(sleeps) : sleeps[k] = 2 ^ k
    /\ pc = "backoff" => Len(sleeps) = Cardinality(Failed) - 1
    /\ pc \in {"retry", "parse", "fin_fetched"} => Len(sleeps) = Cardinality(Failed)
    /\ (pc = "failed" /\ error.at = "fetch") =>
        /\ Cardinality(Failed) = max_retries
        /\ Len(sleeps) = max_retries
    /\ pc \in {"parse", "fin_fetched"} => Len(sleeps) = Len(attempts) - 1

\* the retries were used up: waits of 2 and 4 seconds, the second one after
\* the last attempt
C28_Witness ==
    /\ pc = "failed"
    /\ error.at = "fetch"
    /\ max_retries = 2
    /\ Len(attempts) = 2
    /\ sleeps = <<2, 4>>

\* C29: the retry budget is per page: every page fetch of a pagination run
\* starts with a fresh attempt counter, whatever failed on earlier pages; it
\* goes on attempting while fewer than max_retries attempts have failed, ends
\* with the page after 1 to max_retries session.get calls, and is given up
\* only after max_retries of them.  (A run that reaches page N has thus issued
\* between N and N * max_retries calls.)
C29_RetryBudgetPerPage ==
    [][ /\ (pc = "loop" /\ pc' = "retry") =>
            /\ retry_count' = 0
            /\ attempts' = <<>>
            /\ url'.page = current_page
        /\ (pc = "retry" /\ scraper = "user" /\ Len(attempts) < max_retries) =>
            /\ pc' \in {"parse", "backoff"}
            /\ Len(attempts') = Len(attempts) + 1
        /\ (pc = "retry" /\ pc' = "parse") =>
            /\ 1 <= Len(attempts')
            /\ Len(attempts') <= max_retries
        /\ (pc = "retry" /\ pc' = "failed") => Len(attempts) = max_retries
      ]_vars

\* page 2 was fetched with as many attempts as the budget allows, after page 1
C29_Witness ==
    /\ pc = "parse"
    /\ current_page = 2
    /\ max_retries = 2
    /\ Len(attempts) = 2
    /\ ~Succeeded(attempts[1])
    /\ Succeeded(attempts[2])

=============================================================================
